---- MODULE Spec2Model ----
(***************************************************************************)
(* Prerequisite resolution and pathway scheduling of monash-handbook-plus.  *)
(*                                                                         *)
(*   SpecCheck  checkPrerequisitesMet over a growing planner set           *)
(*   SpecPath   buildPath -> selectedPrereqs -> scheduledPath (PathwayPage) *)
(*   SpecPlan   scheduledSemesters (PlannerPage)                           *)
(*   SpecSched  the schedulers of both pages                               *)
(*   SpecMock   buildPath over the catalog of PathwayPage.test.ts          *)
(*   SpecGraph  the generation of network.json                             *)
(*   SpecStore  the planner store (usePlannerStore)                        *)
(*   SpecDepth  getPrereqDepth of the types module                         *)
(*   SpecGroup  calculateGroupCompletion of the planner store              *)
(*   SpecFetch  fetchData behind the data hooks                            *)
(***************************************************************************)
EXTENDS Integers, Sequences, FiniteSets, TLC

VARIABLES
    requisites,       \* checkPrerequisitesMet: the requisites argument (<<>> = absent)
    plannerSet,       \* checkPrerequisitesMet: the plannerSet argument
    checked,          \* TRUE once checkPrerequisitesMet has run
    checkResult,      \* {met, missingGroups} as returned
    checkTrace,       \* indices of the groups the loop reported
    unitsData,        \* the catalog: code -> [present, prerequisites, offerings]
    units,            \* the planner store's units, in insertion order
    selectedTarget,   \* PathwayPage: the target code
    startYear,        \* start year chosen on the page
    startSemester,    \* start semester chosen on the page
    unitsPerSemester, \* PlannerPage: configurable load
    pc,               \* "idle", "building", ..., "plan_*", "graph_*", "store", "depth_*", "group_*", "fetch"
    stack,            \* buildRecursive: active calls, innermost last
    visited,          \* buildPath: visited
    result,           \* buildPath: result, in push order
    chosen,           \* per group processed: <<code, group index, bestOption, recursed>>
    pathNodes,        \* the memoised buildPath(selectedTarget)
    buildSteps,       \* loop iterations and pushes buildRecursive has executed
    schedule,         \* scheduler: schedule
    scheduled,        \* scheduler: scheduled
    remaining,        \* scheduler: remaining
    currentYear,      \* scheduler: currentYear
    currentPeriod,    \* scheduler: currentPeriod
    iterations,       \* scheduler: iterations
    nodesMap,         \* network.json generation: nodesMap
    links,            \* network.json generation: links
    unitIndex,        \* network.json generation: units of the second loop done
    trackedPrograms,  \* planner store: trackedPrograms
    savedPlans,       \* planner store: savedPlans
    currentPlanId,    \* planner store: currentPlanId (<<>> = null)
    nextId,           \* planner store: the next value of generateId()
    allGroups,        \* program requirements: the requirement groups of a program
    completedUnits,   \* program requirements: codes of the planner units
    completion,       \* <<r>> once calculateGroupCompletion has returned r, else <<>>
    dataCache,        \* hooks: dataCache, per cache key <<>> or <<data>>
    requestCount,     \* hooks: calls of fetch(path) issued so far, per cache key
    calls,            \* hooks: per hook the state of its fetchData call
    depthResult       \* types: <<n>> once getPrereqDepth has returned n, else <<>>

checkVars == <<requisites, plannerSet, checked, checkResult, checkTrace>>
inputVars == <<unitsData, units, selectedTarget>>
buildVars == <<stack, visited, result, chosen, pathNodes, buildSteps>>
schedVars == <<schedule, scheduled, remaining, currentYear, currentPeriod, iterations>>
graphVars == <<nodesMap, links, unitIndex>>
storeVars == <<trackedPrograms, savedPlans, currentPlanId, nextId>>
depthVars == <<depthResult>>
fetchVars == <<dataCache, requestCount, calls>>
groupVars == <<allGroups, completedUnits, completion>>
vars == <<checkVars, inputVars, groupVars, fetchVars, startYear, startSemester, unitsPerSemester, pc,
          buildVars, schedVars, graphVars, storeVars, depthVars>>

(***************************************************************************)
(* Unit codes are character sequences, so that the prefix and the level    *)
(* are parsed out of them the way the regular expressions do.              *)
(***************************************************************************)
FIT30 == <<"F", "I", "T", "3", "0">>
FIT10 == <<"F", "I", "T", "1", "0">>
FIT11 == <<"F", "I", "T", "1", "1">>
MAT20 == <<"M", "A", "T", "2", "0">>
ENG10 == <<"E", "N", "G", "1", "0">>
MTH10 == <<"M", "T", "H", "1", "0">>

AllCodes == {FIT30, FIT10, FIT11, MAT20, ENG10, MTH10}

UpperLetters ==
    {"A", "B", "C", "D", "E", "F", "G", "H", "I", "J", "K", "L", "M",
     "N", "O", "P", "Q", "R", "S", "T", "U", "V", "W", "X", "Y", "Z"}

LowerLetters ==
    {"a", "b", "c", "d", "e", "f", "g", "h", "i", "j", "k", "l", "m",
     "n", "o", "p", "q", "r", "s", "t", "u", "v", "w", "x", "y", "z"}

DigitValue ==
    [d \in {"0", "1", "2", "3", "4", "5", "6", "7", "8", "9"} |->
        CASE d = "0" -> 0 [] d = "1" -> 1 [] d = "2" -> 2 [] d = "3" -> 3
          [] d = "4" -> 4 [] d = "5" -> 5 [] d = "6" -> 6 [] d = "7" -> 7
          [] d = "8" -> 8 [] d = "9" -> 9]

IsDigit(ch) == ch \in DOMAIN DigitValue

\* a code the catalog has no record for (unitsData[code] is undefined)
NoUnit == [present |-> FALSE, prerequisites |-> <<>>, offerings |-> <<>>]

\* new Set(plannerUnits.map(u => u.code))
plannerCodes == {units[k].code : k \in 1..Len(units)}

(***************************************************************************)
(* checkPrerequisitesMet (hooks/useData)                                   *)
(***************************************************************************)
\* faulty variants of the loop: "<=" for "<", and counting the options outside the planner
RECURSIVE MissingGroupsLoopLe(_, _, _)
MissingGroupsLoopLe(groups, S, i) ==
    IF i > Len(groups) THEN <<>>
    ELSE LET group == groups[i]
             unitsInPlanner == SelectSeq(group.units, LAMBDA u : u \in S)
             needed == group.NumReq
             pushed ==
                 IF Len(unitsInPlanner) <= needed
                 THEN << [idx |-> i,
                          needed |-> needed - Len(unitsInPlanner),
                          options |-> SelectSeq(group.units, LAMBDA u : u \notin S)] >>
                 ELSE <<>>
         IN  pushed \o MissingGroupsLoopLe(groups, S, i + 1)

RECURSIVE MissingGroupsLoopNotIn(_, _, _)
MissingGroupsLoopNotIn(groups, S, i) ==
    IF i > Len(groups) THEN <<>>
    ELSE LET group == groups[i]
             unitsInPlanner == SelectSeq(group.units, LAMBDA u : u \notin S)
             needed == group.NumReq
             pushed ==
                 IF Len(unitsInPlanner) < needed
                 THEN << [idx |-> i,
                          needed |-> needed - Len(unitsInPlanner),
                          options |-> SelectSeq(group.units, LAMBDA u : u \notin S)] >>
                 ELSE <<>>
         IN  pushed \o MissingGroupsLoopNotIn(groups, S, i + 1)

\* the for-loop over requisites.prerequisites: one entry per group pushed
RECURSIVE MissingGroupsLoop(_, _, _)
MissingGroupsLoop(groups, S, i) ==
    IF i > Len(groups) THEN <<>>
    ELSE LET group == groups[i]
             unitsInPlanner == SelectSeq(group.units, LAMBDA u : u \in S)
             needed == group.NumReq
             pushed ==
                 IF Len(unitsInPlanner) < needed
                 THEN << [idx |-> i,
                          needed |-> needed - Len(unitsInPlanner),
                          options |-> SelectSeq(group.units, LAMBDA u : u \notin S)] >>
                 ELSE <<>>
         IN  pushed \o MissingGroupsLoop(groups, S, i + 1)

\* trace is the list of group indices that were pushed (not part of the result)
checkPrerequisitesMet(req, S) ==
    IF req = <<>> \/ Len(req[1].prerequisites) = 0
    THEN [met |-> TRUE, missingGroups |-> <<>>, trace |-> <<>>]
    ELSE LET pushed == MissingGroupsLoop(req[1].prerequisites, S, 1)
         IN  [met |-> Len(pushed) = 0,
              missingGroups |->
                  [k \in 1..Len(pushed) |->
                      [needed |-> pushed[k].needed, options |-> pushed[k].options]],
              trace |-> [k \in 1..Len(pushed) |-> pushed[k].idx]]

(***************************************************************************)
(* Code parsing (types/index, PathwayPage)                                 *)
(***************************************************************************)
\* code.match(/^[A-Z]+/)?.[0] || '' : the leading run of upper-case letters
RECURSIVE PrefixLen(_, _)
PrefixLen(code, n) ==
    IF n < Len(code) /\ code[n + 1] \in UpperLetters
    THEN PrefixLen(code, n + 1)
    ELSE n

getPrefix(code) == SubSeq(code, 1, PrefixLen(code, 0))

\* code.match(/[A-Z]{3}(\d)/i): first position with three letters then a digit
LevelMatches(code) ==
    {i \in 1..(Len(code) - 3) :
        /\ \A j \in 0..2 : code[i + j] \in UpperLetters \cup LowerLetters
        /\ IsDigit(code[i + 3])}

getUnitLevel(code) ==
    IF LevelMatches(code) = {} THEN 0
    ELSE LET i == CHOOSE m \in LevelMatches(code) : \A n \in LevelMatches(code) : m <= n
         IN  DigitValue[code[i + 3]]

PFX_FIT == <<"F", "I", "T">>
PFX_MAT == <<"M", "A", "T">>
PFX_MTH == <<"M", "T", "H">>
PFX_STA == <<"S", "T", "A">>
PFX_ENG == <<"E", "N", "G">>
PFX_MEC == <<"M", "E", "C">>
PFX_SCI == <<"S", "C", "I">>
PFX_CHE == <<"C", "H", "E">>
PFX_PHY == <<"P", "H", "Y">>
PFX_BIO == <<"B", "I", "O">>

RELATED_PREFIXES(prefix) ==
    CASE prefix = PFX_FIT -> <<PFX_FIT, PFX_MAT, PFX_MTH, PFX_STA>>
      [] prefix = PFX_MAT -> <<PFX_MAT, PFX_MTH, PFX_FIT, PFX_STA>>
      [] prefix = PFX_MTH -> <<PFX_MTH, PFX_MAT, PFX_FIT, PFX_STA>>
      [] prefix = PFX_ENG -> <<PFX_ENG, PFX_MTH, PFX_MAT, PFX_MEC>>
      [] prefix = PFX_SCI -> <<PFX_SCI, PFX_CHE, PFX_PHY, PFX_BIO>>
      [] OTHER -> <<prefix>>

\* Array.prototype.indexOf, 0-based, -1 when absent
indexOf(seq, x) ==
    IF \E k \in 1..Len(seq) : seq[k] = x
    THEN (CHOOSE k \in 1..Len(seq) : seq[k] = x /\ \A j \in 1..(k - 1) : seq[j] # x) - 1
    ELSE -1

(***************************************************************************)
(* buildPath helpers (PathwayPage)                                         *)
(***************************************************************************)
\* unit.requisites?.prerequisites || []
Prereqs(code) == unitsData[code].prerequisites

RECURSIVE getPrereqDepth(_, _)
RECURSIVE GroupDepthLoop(_, _, _, _)
RECURSIVE MaxDepthLoop(_, _, _, _)

\* inner loop over group.units; min is <<>> for Infinity, else <<n>>
GroupDepthLoop(opts, k, min, seen) ==
    IF k > Len(opts) THEN min
    ELSE IF opts[k] \in plannerCodes THEN <<0>>
    ELSE LET optDepth == 1 + getPrereqDepth(opts[k], seen)
             newMin == IF min = <<>> \/ optDepth < min[1] THEN <<optDepth>> ELSE min
         IN  GroupDepthLoop(opts, k + 1, newMin, seen)

\* outer loop over the unit's prerequisite groups
MaxDepthLoop(groups, i, maxDepth, seen) ==
    IF i > Len(groups) THEN maxDepth
    ELSE LET min == GroupDepthLoop(groups[i].units, 1, <<>>, seen)
             groupDepth == IF min = <<>> THEN 0 ELSE min[1]
         IN  MaxDepthLoop(groups, i + 1,
                          IF groupDepth > maxDepth THEN groupDepth ELSE maxDepth, seen)

getPrereqDepth(code, seen) ==
    IF code \in seen THEN 0
    ELSE IF code \in plannerCodes THEN 0
    ELSE IF Len(Prereqs(code)) = 0 THEN 0
    ELSE MaxDepthLoop(Prereqs(code), 1, 0, seen \cup {code})

\* faulty variant: the depth of the option does not count
OptionScoreNoDepth(opt, relatedPrefixes) ==
    LET prefixIndex == indexOf(relatedPrefixes, getPrefix(opt))
        bonus == IF prefixIndex >= 0 THEN (10 - prefixIndex) * 100 ELSE 0
    IN  bonus - getUnitLevel(opt)

\* the score chooseBestOption gives to an option
OptionScore(opt, relatedPrefixes) ==
    LET prefixIndex == indexOf(relatedPrefixes, getPrefix(opt))
        bonus == IF prefixIndex >= 0 THEN (10 - prefixIndex) * 100 ELSE 0
    IN  bonus - getPrereqDepth(opt, {}) * 10 - getUnitLevel(opt)

\* faulty variant: an equal score overtakes (the sort is not stable)
RECURSIVE InsertByScoreUnstable(_, _)
InsertByScoreUnstable(sorted, x) ==
    IF sorted = <<>> THEN <<x>>
    ELSE IF x.score >= sorted[Len(sorted)].score
         THEN InsertByScoreUnstable(SubSeq(sorted, 1, Len(sorted) - 1), x)
                  \o <<sorted[Len(sorted)]>>
         ELSE sorted \o <<x>>

\* Array.prototype.sort with (a, b) => b.score - a.score: stable, descending
RECURSIVE InsertByScore(_, _)
InsertByScore(sorted, x) ==
    IF sorted = <<>> THEN <<x>>
    ELSE IF x.score > sorted[Len(sorted)].score
         THEN InsertByScore(SubSeq(sorted, 1, Len(sorted) - 1), x) \o <<sorted[Len(sorted)]>>
         ELSE sorted \o <<x>>

RECURSIVE SortByScore(_)
SortByScore(seq) ==
    IF seq = <<>> THEN <<>>
    ELSE InsertByScore(SortByScore(SubSeq(seq, 1, Len(seq) - 1)), seq[Len(seq)])

\* faulty variant: the planner shortcut is missing
chooseBestOptionNoPlanner(options, parentCode) ==
    IF Len(options) = 0 THEN <<>>
    ELSE IF Len(options) = 1 THEN options[1]
    ELSE LET relatedPrefixes == RELATED_PREFIXES(getPrefix(parentCode))
             inCatalog == SelectSeq(options, LAMBDA opt : unitsData[opt].present)
             scored == SortByScore(
                 [k \in 1..Len(inCatalog) |->
                     [code |-> inCatalog[k],
                      score |-> OptionScore(inCatalog[k], relatedPrefixes)]])
         IN  IF Len(scored) > 0 THEN scored[1].code ELSE options[1]

\* null is <<>>
chooseBestOption(options, parentCode) ==
    IF Len(options) = 0 THEN <<>>
    ELSE IF Len(options) = 1 THEN options[1]
    ELSE IF \E k \in 1..Len(options) : options[k] \in plannerCodes
    THEN options[CHOOSE k \in 1..Len(options) :
                    /\ options[k] \in plannerCodes
                    /\ \A j \in 1..(k - 1) : options[j] \notin plannerCodes]
    ELSE LET relatedPrefixes == RELATED_PREFIXES(getPrefix(parentCode))
             inCatalog == SelectSeq(options, LAMBDA opt : unitsData[opt].present)
             scored == SortByScore(
                 [k \in 1..Len(inCatalog) |->
                     [code |-> inCatalog[k],
                      score |-> OptionScore(inCatalog[k], relatedPrefixes)]])
         IN  IF Len(scored) > 0 THEN scored[1].code ELSE options[1]

(***************************************************************************)
(* getSemestersFromOfferings (types/index): period strings are character   *)
(* sequences, lower-cased and searched for the keywords                    *)
(***************************************************************************)
PERIOD_FIRST == <<"F", "i", "r", "s", "t", " ", "s", "e", "m", "e", "s", "t", "e", "r">>
PERIOD_SECOND == <<"S", "e", "c", "o", "n", "d", " ", "s", "e", "m", "e", "s", "t", "e", "r">>
PERIOD_SUMMER == <<"S", "u", "m", "m", "e", "r", " ", "s", "e", "m", "e", "s", "t", "e", "r", " ", "A">>
PERIOD_FULL == <<"F", "u", "l", "l", " ", "y", "e", "a", "r">>

SUB_FIRST_SEMESTER == <<"f", "i", "r", "s", "t", " ", "s", "e", "m", "e", "s", "t", "e", "r">>
SUB_SEMESTER_1 == <<"s", "e", "m", "e", "s", "t", "e", "r", " ", "1">>
SUB_SECOND_SEMESTER == <<"s", "e", "c", "o", "n", "d", " ", "s", "e", "m", "e", "s", "t", "e", "r">>
SUB_SEMESTER_2 == <<"s", "e", "m", "e", "s", "t", "e", "r", " ", "2">>
SUB_SUMMER == <<"s", "u", "m", "m", "e", "r">>
SUB_WINTER == <<"w", "i", "n", "t", "e", "r">>
SUB_OCTOBER == <<"o", "c", "t", "o", "b", "e", "r">>
SUB_OCT == <<"o", "c", "t">>
SUB_FEBRUARY == <<"f", "e", "b", "r", "u", "a", "r", "y">>
SUB_FEB == <<"f", "e", "b">>

UpperToLower ==
    [ch \in UpperLetters |->
        CASE ch = "A" -> "a"
          [] ch = "B" -> "b"
          [] ch = "C" -> "c"
          [] ch = "D" -> "d"
          [] ch = "E" -> "e"
          [] ch = "F" -> "f"
          [] ch = "G" -> "g"
          [] ch = "H" -> "h"
          [] ch = "I" -> "i"
          [] ch = "J" -> "j"
          [] ch = "K" -> "k"
          [] ch = "L" -> "l"
          [] ch = "M" -> "m"
          [] ch = "N" -> "n"
          [] ch = "O" -> "o"
          [] ch = "P" -> "p"
          [] ch = "Q" -> "q"
          [] ch = "R" -> "r"
          [] ch = "S" -> "s"
          [] ch = "T" -> "t"
          [] ch = "U" -> "u"
          [] ch = "V" -> "v"
          [] ch = "W" -> "w"
          [] ch = "X" -> "x"
          [] ch = "Y" -> "y"
          [] ch = "Z" -> "z"]

\* String.prototype.toLowerCase
toLowerCase(str) ==
    [k \in 1..Len(str) |-> IF str[k] \in UpperLetters THEN UpperToLower[str[k]] ELSE str[k]]

\* String.prototype.includes
includes(str, sub) ==
    \E i \in 0..(Len(str) - Len(sub)) : \A k \in 1..Len(sub) : str[i + k] = sub[k]

\* the semesters one offering adds to the set
SemestersOfPeriod(rawPeriod) ==
    LET period == toLowerCase(rawPeriod)
    IN  (IF includes(period, SUB_FIRST_SEMESTER) \/ includes(period, SUB_SEMESTER_1)
            THEN {"S1"} ELSE {})
        \cup (IF includes(period, SUB_SECOND_SEMESTER) \/ includes(period, SUB_SEMESTER_2)
            THEN {"S2"} ELSE {})
        \cup (IF includes(period, SUB_SUMMER) THEN {"Summer"} ELSE {})
        \cup (IF includes(period, SUB_WINTER) THEN {"Winter"} ELSE {})
        \cup (IF includes(period, SUB_OCTOBER) \/ includes(period, SUB_OCT)
            THEN {"Oct"} ELSE {})
        \cup (IF includes(period, SUB_FEBRUARY) \/ includes(period, SUB_FEB)
            THEN {"Feb"} ELSE {})

\* the default sort order of the six names
SemesterSortOrder == <<"Feb", "Oct", "S1", "S2", "Summer", "Winter">>

\* offerings is <<>> when undefined or empty; the result is the sorted array
getSemestersFromOfferings(offerings) ==
    LET semesters == UNION {SemestersOfPeriod(offerings[k].period) : k \in 1..Len(offerings)}
    IN  SelectSeq(SemesterSortOrder, LAMBDA name : name \in semesters)

(***************************************************************************)
(* buildPath / buildRecursive (PathwayPage), one action per loop step      *)
(***************************************************************************)
\* faulty variant: no visited check
CallProceedsRevisit(code) ==
    /\ code \notin plannerCodes
    /\ unitsData[code].present

\* the three early returns of buildRecursive
CallProceeds(code) ==
    /\ code \notin visited
    /\ code \notin plannerCodes
    /\ unitsData[code].present

\* alternativesMap entry set on entry: <<>> when none was set
AlternativesFor(code, groupOptions) ==
    IF Len(groupOptions) > 1
    THEN <<SelectSeq(groupOptions, LAMBDA opt : opt # code /\ unitsData[opt].present)>>
    ELSE <<>>

NewFrame(code, depth, groupOptions) ==
    [code |-> code, depth |-> depth, gi |-> 1,
     alternatives |-> AlternativesFor(code, groupOptions)]

\* result.sort((a, b) => b.depth - a.depth): stable, descending depth
RECURSIVE InsertByDepth(_, _)
InsertByDepth(sorted, x) ==
    IF sorted = <<>> THEN <<x>>
    ELSE IF x.depth > sorted[Len(sorted)].depth
         THEN InsertByDepth(SubSeq(sorted, 1, Len(sorted) - 1), x) \o <<sorted[Len(sorted)]>>
         ELSE sorted \o <<x>>

\* faulty variant: ascending depth
RECURSIVE SortByDepthAscending(_)
SortByDepthAscending(seq) ==
    IF seq = <<>> THEN <<>>
    ELSE LET rest == SortByDepthAscending(SubSeq(seq, 1, Len(seq) - 1))
             x == seq[Len(seq)]
             before == SelectSeq(rest, LAMBDA y : y.depth <= x.depth)
             after == SelectSeq(rest, LAMBDA y : y.depth > x.depth)
         IN  before \o <<x>> \o after

RECURSIVE SortByDepth(_)
SortByDepth(seq) ==
    IF seq = <<>> THEN <<>>
    ELSE InsertByDepth(SortByDepth(SubSeq(seq, 1, Len(seq) - 1)), seq[Len(seq)])

\* buildPath(selectedTarget) up to the first call of buildRecursive
BuildPathStart ==
    /\ pc = "idle"
    /\ IF ~unitsData[selectedTarget].present
       THEN /\ pathNodes' = <<>>
            /\ pc' = "built"
            /\ UNCHANGED <<stack, visited>>
       ELSE /\ pc' = "building"
            /\ IF CallProceeds(selectedTarget)
               THEN /\ stack' = <<NewFrame(selectedTarget, 0, <<>>)>>
                    /\ visited' = {selectedTarget}
               ELSE UNCHANGED <<stack, visited>>
            /\ UNCHANGED pathNodes
    /\ UNCHANGED <<checkVars, inputVars, groupVars, fetchVars, startYear, startSemester, unitsPerSemester,
                   result, chosen, buildSteps, schedVars,
                   graphVars, storeVars, depthVars>>

\* faulty variant: the recursion enters the first option of the group instead
\* of the chosen one
BuildGroupFirstOption ==
    /\ pc = "building"
    /\ stack # <<>>
    /\ LET n == Len(stack)
           top == stack[n]
           groups == Prereqs(top.code)
       IN  /\ top.gi <= Len(groups)
           /\ LET group == groups[top.gi]
                  bestOption == chooseBestOption(group.units, top.code)
                  entered == IF Len(group.units) > 0 THEN group.units[1] ELSE <<>>
                  advanced == [stack EXCEPT ![n].gi = @ + 1]
                  called == bestOption # <<>> /\ bestOption \notin plannerCodes
              IN  /\ chosen' = chosen \cup {<<top.code, top.gi, bestOption, called>>}
                  /\ IF called /\ CallProceeds(entered)
                     THEN /\ stack' = Append(advanced,
                                  NewFrame(entered, top.depth + 1, group.units))
                          /\ visited' = visited \cup {entered}
                     ELSE /\ stack' = advanced
                          /\ UNCHANGED visited
    /\ buildSteps' = buildSteps + 1
    /\ UNCHANGED <<checkVars, inputVars, groupVars, fetchVars, startYear, startSemester, unitsPerSemester,
                   pc, result, pathNodes, schedVars,
                   graphVars, storeVars, depthVars>>

\* one iteration of "for (const group of prereqGroups)", with the entry of
\* the recursive call it makes
BuildGroup ==
    /\ pc = "building"
    /\ stack # <<>>
    /\ LET n == Len(stack)
           top == stack[n]
           groups == Prereqs(top.code)
       IN  /\ top.gi <= Len(groups)
           /\ LET group == groups[top.gi]
                  bestOption == chooseBestOption(group.units, top.code)
                  advanced == [stack EXCEPT ![n].gi = @ + 1]
                  called == bestOption # <<>> /\ bestOption \notin plannerCodes
              IN  /\ chosen' = chosen \cup {<<top.code, top.gi, bestOption, called>>}
                  /\ IF called /\ CallProceeds(bestOption)
                     THEN /\ stack' = Append(advanced,
                                  NewFrame(bestOption, top.depth + 1, group.units))
                          /\ visited' = visited \cup {bestOption}
                     ELSE /\ stack' = advanced
                          /\ UNCHANGED visited
    /\ buildSteps' = buildSteps + 1
    /\ UNCHANGED <<checkVars, inputVars, groupVars, fetchVars, startYear, startSemester, unitsPerSemester,
                   pc, result, pathNodes, schedVars,
                   graphVars, storeVars, depthVars>>

\* result.push(...) and return from buildRecursive
BuildAppend ==
    /\ pc = "building"
    /\ stack # <<>>
    /\ LET n == Len(stack)
           top == stack[n]
       IN  /\ top.gi > Len(Prereqs(top.code))
           /\ result' = Append(result,
                  [code |-> top.code,
                   level |-> getUnitLevel(top.code),
                   semesters |-> getSemestersFromOfferings(unitsData[top.code].offerings),
                   depth |-> top.depth,
                   alternatives |-> top.alternatives])
           /\ stack' = SubSeq(stack, 1, n - 1)
    /\ buildSteps' = buildSteps + 1
    /\ UNCHANGED <<checkVars, inputVars, groupVars, fetchVars, startYear, startSemester, unitsPerSemester,
                   pc, visited, chosen, pathNodes, schedVars,
                   graphVars, storeVars, depthVars>>

\* return result.sort(...)
BuildSort ==
    /\ pc = "building"
    /\ stack = <<>>
    /\ pathNodes' = SortByDepth(result)
    /\ pc' = "built"
    /\ UNCHANGED <<checkVars, inputVars, groupVars, fetchVars, startYear, startSemester, unitsPerSemester,
                   stack, visited, result, chosen, buildSteps, schedVars,
                   graphVars, storeVars, depthVars>>

(***************************************************************************)
(* selectedPrereqs and scheduledPath (PathwayPage)                         *)
(***************************************************************************)
PATH_MAX_ITERATIONS == 20
PATH_UNITS_PER_SEMESTER == 4

SeqRange(seq) == {seq[k] : k \in 1..Len(seq)}

\* Array.prototype.find with a membership test: <<>> when nothing matches,
\* else <<first match>>
find(seq, matching) ==
    LET hits == SelectSeq(seq, LAMBDA x : x \in matching)
    IN  IF hits = <<>> THEN <<>> ELSE <<hits[1]>>

\* faulty variant: one element too many
sliceFirstOneMore(seq, n) == SubSeq(seq, 1, IF n + 1 < Len(seq) THEN n + 1 ELSE Len(seq))

\* Array.prototype.slice(0, n) for n >= 0
sliceFirst(seq, n) == SubSeq(seq, 1, IF n < Len(seq) THEN n ELSE Len(seq))

\* one group's contribution to prereqMap.get(node.code)
SelectedOfGroup(group) ==
    LET pathCodes == {pathNodes[k].code : k \in 1..Len(pathNodes)}
        selected == find(group.units, pathCodes \cup plannerCodes)
    IN  IF selected # <<>> /\ selected[1] \notin plannerCodes THEN selected ELSE <<>>

RECURSIVE SelectedLoop(_, _)
SelectedLoop(groups, i) ==
    IF i > Len(groups) THEN <<>>
    ELSE SelectedOfGroup(groups[i]) \o SelectedLoop(groups, i + 1)

\* selectedPrereqs.get(code) || []
selectedPrereqs(code) ==
    IF \E k \in 1..Len(pathNodes) : pathNodes[k].code = code
    THEN SelectedLoop(Prereqs(code), 1)
    ELSE <<>>

\* remaining.findIndex(n => n.code === code) and splice(idx, 1)
RECURSIVE RemoveFirstCode(_, _)
RemoveFirstCode(seq, code) ==
    IF seq = <<>> THEN <<>>
    ELSE IF seq[1].code = code THEN Tail(seq)
    ELSE <<seq[1]>> \o RemoveFirstCode(Tail(seq), code)

\* faulty variant: the scheduled units stay in remaining
RemoveAllNone(seq, taken) == seq

RECURSIVE RemoveAll(_, _)
RemoveAll(seq, taken) ==
    IF taken = <<>> THEN seq
    ELSE RemoveAll(RemoveFirstCode(seq, taken[1].code), Tail(taken))

\* "Move to next semester"
NextPeriod(period) == IF period = "S1" THEN "S2" ELSE "S1"

\* faulty variant: the year moves on after S1
NextYearAfterS1(year, period) == IF period = "S1" THEN year + 1 ELSE year

NextYear(year, period) == IF period = "S1" THEN year ELSE year + 1

\* faulty variant: the prerequisites are not looked at
PathCanScheduleNoDeps(node) ==
    \/ Len(node.semesters) = 0
    \/ currentPeriod \in SeqRange(node.semesters)

\* the filter of one round of scheduledPath
PathCanSchedule(node) ==
    /\ \A p \in SeqRange(selectedPrereqs(node.code)) : p \in scheduled
    /\ \/ Len(node.semesters) = 0
       \/ currentPeriod \in SeqRange(node.semesters)

\* the scheduledPath memo up to the loop
SchedulePathStart ==
    /\ pc = "built"
    /\ IF Len(pathNodes) = 0
       THEN /\ pc' = "done"
            /\ UNCHANGED <<scheduled, remaining>>
       ELSE /\ pc' = "scheduling"
            /\ scheduled' = plannerCodes
            /\ remaining' = pathNodes
    /\ schedule' = <<>>
    /\ currentYear' = startYear
    /\ currentPeriod' = startSemester
    /\ iterations' = 0
    /\ UNCHANGED <<checkVars, inputVars, buildVars, groupVars, fetchVars, startYear, startSemester,
                   unitsPerSemester,
                   graphVars, storeVars, depthVars>>

\* one iteration of the while loop of scheduledPath
SchedulePathRound ==
    /\ pc = "scheduling"
    /\ Len(remaining) > 0 /\ iterations < PATH_MAX_ITERATIONS
    /\ iterations' = iterations + 1
    /\ LET canSchedule == SelectSeq(remaining, PathCanSchedule)
           taken == sliceFirst(canSchedule, PATH_UNITS_PER_SEMESTER)
           semesterUnits ==
               [k \in 1..Len(taken) |->
                   [code |-> taken[k].code,
                    semester |-> [year |-> currentYear, period |-> currentPeriod]]]
       IN  /\ scheduled' = scheduled \cup {taken[k].code : k \in 1..Len(taken)}
           /\ remaining' = RemoveAll(remaining, taken)
           /\ schedule' = IF Len(semesterUnits) > 0
                          THEN Append(schedule, semesterUnits)
                          ELSE schedule
    /\ currentPeriod' = NextPeriod(currentPeriod)
    /\ currentYear' = NextYear(currentYear, currentPeriod)
    /\ UNCHANGED <<checkVars, inputVars, pc, buildVars, groupVars, fetchVars, startYear, startSemester,
                   unitsPerSemester,
                   graphVars, storeVars, depthVars>>

\* the loop condition fails: return schedule
SchedulePathReturn ==
    /\ pc = "scheduling"
    /\ ~(Len(remaining) > 0 /\ iterations < PATH_MAX_ITERATIONS)
    /\ pc' = "done"
    /\ UNCHANGED <<checkVars, inputVars, groupVars, fetchVars, startYear, startSemester, unitsPerSemester,
                   buildVars, schedVars,
                   graphVars, storeVars, depthVars>>

NextPath ==
    \/ BuildPathStart
    \/ BuildGroup
    \/ BuildAppend
    \/ BuildSort
    \/ SchedulePathStart
    \/ SchedulePathRound
    \/ SchedulePathReturn

(***************************************************************************)
(* scheduledSemesters (PlannerPage), the full-planner auto-schedule        *)
(***************************************************************************)
PLAN_MAX_ITERATIONS == 30

\* one group's contribution to getPrereqs(code)
PlanPrereqOfGroup(group) == find(group.units, plannerCodes)

RECURSIVE PlanPrereqLoop(_, _)
PlanPrereqLoop(groups, i) ==
    IF i > Len(groups) THEN <<>>
    ELSE PlanPrereqOfGroup(groups[i]) \o PlanPrereqLoop(groups, i + 1)

\* getPrereqs(code): [] for a code without catalog record or prerequisites
getPrereqs(code) == PlanPrereqLoop(Prereqs(code), 1)

\* faulty variant: the offerings are not looked at
PlanCanScheduleAnyPeriod(unit) ==
    \A p \in SeqRange(getPrereqs(unit.code)) :
        p \in scheduled \/ p \notin plannerCodes

\* faulty variant: the prerequisites are not looked at
PlanCanScheduleNoDeps(unit) ==
    LET semesters == getSemestersFromOfferings(unitsData[unit.code].offerings)
    IN  \/ Len(semesters) = 0
        \/ currentPeriod \in SeqRange(semesters)

\* the filter of one round of scheduledSemesters
PlanCanSchedule(unit) ==
    /\ \A p \in SeqRange(getPrereqs(unit.code)) :
          p \in scheduled \/ p \notin plannerCodes
    /\ LET semesters == getSemestersFromOfferings(unitsData[unit.code].offerings)
       IN  \/ Len(semesters) = 0
           \/ currentPeriod \in SeqRange(semesters)

\* the scheduledSemesters memo up to the loop
SchedulePlanStart ==
    /\ pc = "plan_idle"
    /\ IF Len(units) = 0
       THEN /\ pc' = "plan_done"
            /\ UNCHANGED remaining
       ELSE /\ pc' = "plan_scheduling"
            /\ remaining' = units
    /\ schedule' = <<>>
    /\ scheduled' = {}
    /\ currentYear' = startYear
    /\ currentPeriod' = startSemester
    /\ iterations' = 0
    /\ UNCHANGED <<checkVars, inputVars, buildVars, groupVars, fetchVars, startYear, startSemester,
                   unitsPerSemester,
                   graphVars, storeVars, depthVars>>

\* one iteration of the while loop of scheduledSemesters
SchedulePlanRound ==
    /\ pc = "plan_scheduling"
    /\ Len(remaining) > 0 /\ iterations < PLAN_MAX_ITERATIONS
    /\ iterations' = iterations + 1
    /\ LET canSchedule == SelectSeq(remaining, PlanCanSchedule)
           taken == sliceFirst(canSchedule, unitsPerSemester)
           semesterUnits == [k \in 1..Len(taken) |-> [code |-> taken[k].code]]
       IN  /\ scheduled' = scheduled \cup {taken[k].code : k \in 1..Len(taken)}
           /\ remaining' = RemoveAll(remaining, taken)
           /\ schedule' = IF Len(semesterUnits) > 0
                          THEN Append(schedule,
                                   [year |-> currentYear, period |-> currentPeriod,
                                    units |-> semesterUnits])
                          ELSE schedule
    /\ currentPeriod' = NextPeriod(currentPeriod)
    /\ currentYear' = NextYear(currentYear, currentPeriod)
    /\ UNCHANGED <<checkVars, inputVars, pc, buildVars, groupVars, fetchVars, startYear, startSemester,
                   unitsPerSemester,
                   graphVars, storeVars, depthVars>>

\* the loop condition fails: return schedule
SchedulePlanReturn ==
    /\ pc = "plan_scheduling"
    /\ ~(Len(remaining) > 0 /\ iterations < PLAN_MAX_ITERATIONS)
    /\ pc' = "plan_done"
    /\ UNCHANGED <<checkVars, inputVars, groupVars, fetchVars, startYear, startSemester, unitsPerSemester,
                   buildVars, schedVars,
                   graphVars, storeVars, depthVars>>

NextPlan ==
    \/ SchedulePlanStart
    \/ SchedulePlanRound
    \/ SchedulePlanReturn

(***************************************************************************)
(* Catalog families.  A catalog of CatalogsUpTo has at most n option       *)
(* entries in all its prerequisite groups together, and every unit that    *)
(* has prerequisites is present and reachable through options from the     *)
(* roots: the target of the pathway, or the units of the planner.          *)
(***************************************************************************)
PlainUnit == [present |-> TRUE, prerequisites |-> <<>>, offerings |-> <<>>]

EmptyCatalog(absent) ==
    [c \in AllCodes |-> IF c \in absent THEN NoUnit ELSE PlainUnit]

OptionCodes(cat, u) ==
    UNION {{cat[u].prerequisites[i].units[k] :
               k \in 1..Len(cat[u].prerequisites[i].units)} :
           i \in 1..Len(cat[u].prerequisites)}

RECURSIVE ReachableFrom(_, _)
ReachableFrom(cat, R) ==
    LET R2 == R \cup UNION {OptionCodes(cat, u) : u \in R}
    IN  IF R2 = R THEN R ELSE ReachableFrom(cat, R2)

AddGroup(cat, u, o) ==
    [cat EXCEPT ![u].prerequisites = @ \o <<[NumReq |-> 1, units |-> <<o>>]>>]

AddOption(cat, u, o) ==
    [cat EXCEPT ![u].prerequisites[Len(cat[u].prerequisites)].units = @ \o <<o>>]

\* the catalogs with one option entry more; orGroups allows groups of several options
ExtendCatalog(cat, roots, codes, orGroups) ==
    LET R == {u \in ReachableFrom(cat, roots) : cat[u].present}
        last(u) == cat[u].prerequisites[Len(cat[u].prerequisites)].units
    IN  {AddGroup(cat, u, o) : u \in R, o \in codes}
        \cup IF orGroups
             THEN UNION {{AddOption(cat, u, o) :
                             o \in {x \in codes :
                                       \A k \in 1..Len(last(u)) : last(u)[k] # x}} :
                         u \in {x \in R : Len(cat[x].prerequisites) > 0}}
             ELSE {}

RECURSIVE CatalogsUpTo(_, _, _, _, _)
CatalogsUpTo(n, roots, absent, codes, orGroups) ==
    IF n = 0 THEN {EmptyCatalog(absent)}
    ELSE LET smaller == CatalogsUpTo(n - 1, roots, absent, codes, orGroups)
         IN  smaller \cup UNION {ExtendCatalog(cat, roots, codes, orGroups) : cat \in smaller}

\* the offerings a unit of the families can have (<<>>: none recorded)
OfferingChoices ==
    {<<>>,
     <<[period |-> PERIOD_FIRST]>>,
     <<[period |-> PERIOD_SECOND]>>,
     <<[period |-> PERIOD_SUMMER]>>}

\* cat with every assignment of offerings to the units in reach of t
WithOfferings(cat, roots) ==
    LET R == {u \in ReachableFrom(cat, roots) : cat[u].present}
    IN  {[c \in AllCodes |->
            IF c \in R THEN [cat[c] EXCEPT !.offerings = f[c]] ELSE cat[c]] :
         f \in [R -> OfferingChoices]}

\* planner stores: sequences of distinct units
RECURSIVE DistinctSeqs(_, _)
DistinctSeqs(codes, n) ==
    IF n = 0 THEN {<<>>}
    ELSE LET shorter == DistinctSeqs(codes, n - 1)
         IN  shorter \cup {Append(s, [code |-> c]) :
                             <<s, c>> \in {p \in shorter \X codes :
                                 \A k \in 1..Len(p[1]) : p[1][k].code # p[2]}}

(***************************************************************************)
(* SpecPath: inputs of the pathway page                                    *)
(***************************************************************************)
MaxSlots == 2
MaxPlanner == 1
MaxChainGroups == 4
MaxOfferSlots == 1
MaxOptions == 3

CoreCodes == {FIT30, FIT10, FIT11, MAT20, ENG10}
ChainCodes == {FIT30, FIT10, FIT11, MAT20}
PlannerChoices == {FIT10, MAT20}
ChoiceCodes == {FIT10, FIT11, MAT20, ENG10}
Targets == {FIT30, ENG10}
AbsentChoices == {{}, {ENG10}}
StarLeaves == <<FIT10, FIT11, MAT20, ENG10, MTH10>>
StartYears == {2024}

\* any small catalog, with a planner of at most MaxPlanner units
GeneralInputs ==
    /\ selectedTarget \in Targets
    /\ \E absent \in AbsentChoices :
          unitsData \in CatalogsUpTo(MaxSlots, {selectedTarget}, absent, CoreCodes, TRUE)
    /\ units \in DistinctSeqs(PlannerChoices, MaxPlanner)
    /\ startSemester = "S1"

\* deeper catalogs of single-option groups
ChainInputs ==
    /\ selectedTarget = FIT30
    /\ unitsData \in CatalogsUpTo(MaxChainGroups, {FIT30}, {}, ChainCodes, FALSE)
    /\ units = <<>>
    /\ startSemester = "S1"

\* FIT30 requiring the first k of StarLeaves, each in a group of its own
StarCatalog(k) ==
    [EmptyCatalog({}) EXCEPT ![FIT30].prerequisites =
        [i \in 1..k |-> [NumReq |-> 1, units |-> <<StarLeaves[i]>>]]]

StarInputs ==
    /\ selectedTarget = FIT30
    /\ \E k \in 0..Len(StarLeaves) : unitsData = StarCatalog(k)
    /\ units = <<>>
    /\ startSemester \in {"S1", "S2"}

\* small catalogs with every assignment of offerings
OfferInputs ==
    /\ selectedTarget = FIT30
    /\ \E cat \in CatalogsUpTo(MaxOfferSlots, {FIT30}, {}, ChainCodes, TRUE) :
          unitsData \in WithOfferings(cat, {FIT30})
    /\ units = <<>>
    /\ startSemester \in {"S1", "S2"}

\* FIT30 with one group of several options, some of them with a prerequisite
\* of their own, some of them missing from the catalog
ChoiceInputs ==
    /\ selectedTarget = FIT30
    /\ \E opts \in UNION {[1..n -> ChoiceCodes] : n \in 2..MaxOptions} :
       \E deep \in SUBSET ChoiceCodes :
       \E absent \in {{}, {FIT10}} :
          unitsData =
              [c \in AllCodes |->
                  IF c = FIT30
                  THEN [PlainUnit EXCEPT
                           !.prerequisites = <<[NumReq |-> 1, units |-> opts]>>]
                  ELSE IF c \in absent THEN NoUnit
                  ELSE IF c \in deep
                  THEN [PlainUnit EXCEPT
                           !.prerequisites = <<[NumReq |-> 1, units |-> <<MTH10>>]>>]
                  ELSE PlainUnit]
    /\ units = <<>>
    /\ startSemester = "S1"

\* FIT30 requires FIT10 and MAT20, MAT20 requires FIT11; FIT11 is offered in
\* summer only, in a period that names no semester, or in summer and the
\* first semester
SeasonOfferings ==
    {<<[period |-> PERIOD_SUMMER]>>,
     <<[period |-> PERIOD_FULL]>>,
     <<[period |-> PERIOD_SUMMER], [period |-> PERIOD_FIRST]>>}

SeasonInputs ==
    /\ selectedTarget = FIT30
    /\ \E late \in SeasonOfferings :
       \E early \in {<<>>, <<[period |-> PERIOD_SECOND]>>} :
          unitsData =
              [EmptyCatalog({}) EXCEPT
                  ![FIT30].prerequisites = <<[NumReq |-> 1, units |-> <<FIT10>>],
                                             [NumReq |-> 1, units |-> <<MAT20>>]>>,
                  ![MAT20].prerequisites = <<[NumReq |-> 1, units |-> <<FIT11>>]>>,
                  ![FIT11].offerings = late,
                  ![FIT10].offerings = early]
    /\ units = <<>>
    /\ startSemester \in {"S1", "S2"}

\* five units in a line: each unit but the first requires the one before it
FiveUnitChain == <<ENG10, MAT20, FIT11, FIT10, FIT30>>

FiveUnitChainCatalog ==
    [c \in AllCodes |->
        IF \E k \in 2..Len(FiveUnitChain) : FiveUnitChain[k] = c
        THEN [PlainUnit EXCEPT !.prerequisites =
                 <<[NumReq |-> 1,
                    units |-> <<FiveUnitChain[(CHOOSE k \in 2..Len(FiveUnitChain) :
                                                 FiveUnitChain[k] = c) - 1]>>]>>]
        ELSE PlainUnit]

FiveUnitChainInputs ==
    /\ selectedTarget = FIT30
    /\ unitsData = FiveUnitChainCatalog
    /\ units = <<>>
    /\ startSemester \in {"S1", "S2"}

\* the largest NumReq of a group of the inputs
MaxNumReq == 2

\* FIT30 with one group that asks for one or more of its options
SeveralOfInputs ==
    /\ selectedTarget = FIT30
    /\ \E opts \in {<<FIT10, MAT20>>, <<FIT10, MAT20, FIT11>>, <<ENG10, FIT10, MAT20, FIT11>>} :
       \E n \in 1..MaxNumReq :
          /\ n <= Len(opts)
          /\ unitsData =
                [EmptyCatalog({}) EXCEPT
                    ![FIT30].prerequisites = <<[NumReq |-> n, units |-> opts]>>]
    /\ units \in DistinctSeqs(PlannerChoices, MaxPlanner)
    /\ startSemester = "S1"

\* FIT30 requires one of MAT20 and FIT10, and MAT20 as well
SharedOptionCatalog ==
    [EmptyCatalog({}) EXCEPT
        ![FIT30].prerequisites = <<[NumReq |-> 1, units |-> <<MAT20, FIT10>>],
                                   [NumReq |-> 1, units |-> <<MAT20>>]>>]

\* the same, with FIT10 requiring FIT11 and FIT11 requiring ENG10
SharedOptionDeepCatalog ==
    [SharedOptionCatalog EXCEPT
        ![FIT10].prerequisites = <<[NumReq |-> 1, units |-> <<FIT11>>]>>,
        ![FIT11].prerequisites = <<[NumReq |-> 1, units |-> <<ENG10>>]>>]

SharedOptionInputs ==
    /\ selectedTarget = FIT30
    /\ unitsData \in {SharedOptionCatalog, SharedOptionDeepCatalog}
    /\ units \in DistinctSeqs(PlannerChoices, MaxPlanner)
    /\ startSemester = "S1"

PathInputs ==
    \/ FiveUnitChainInputs
    \/ SeveralOfInputs
    \/ SharedOptionInputs
    \/ GeneralInputs
    \/ ChainInputs
    \/ StarInputs
    \/ OfferInputs
    \/ ChoiceInputs
    \/ SeasonInputs

CheckIdle ==
    /\ requisites = <<>>
    /\ plannerSet = {}
    /\ checked = FALSE
    /\ checkResult = [met |-> TRUE, missingGroups |-> <<>>]
    /\ checkTrace = <<>>

BuildIdle ==
    /\ stack = <<>>
    /\ visited = {}
    /\ result = <<>>
    /\ chosen = {}
    /\ pathNodes = <<>>
    /\ buildSteps = 0

GraphIdle ==
    /\ nodesMap = <<>>
    /\ links = <<>>
    /\ unitIndex = 0

StoreIdle ==
    /\ trackedPrograms = <<>>
    /\ savedPlans = <<>>
    /\ currentPlanId = <<>>
    /\ nextId = 1

DepthIdle == depthResult = <<>>

FetchIdle ==
    /\ dataCache = <<>>
    /\ requestCount = <<>>
    /\ calls = <<>>

GroupIdle ==
    /\ allGroups = <<>>
    /\ completedUnits = {}
    /\ completion = <<>>

SchedIdle ==
    /\ schedule = <<>>
    /\ scheduled = {}
    /\ remaining = <<>>
    /\ currentYear \in StartYears
    /\ currentYear = startYear
    /\ currentPeriod = startSemester
    /\ iterations = 0

InitPath ==
    /\ CheckIdle
    /\ PathInputs
    /\ startYear \in StartYears
    /\ unitsPerSemester = PATH_UNITS_PER_SEMESTER
    /\ pc = "idle"
    /\ BuildIdle
    /\ SchedIdle
    /\ GraphIdle
    /\ StoreIdle
    /\ DepthIdle
    /\ FetchIdle
    /\ GroupIdle

SpecPath == InitPath /\ [][NextPath]_vars

(***************************************************************************)
(* SpecMock: the catalog of the pathway tests, with any target and any     *)
(* planner of at most MaxMockPlanner units                                 *)
(***************************************************************************)
MaxMockPlanner == 2

FIT3155 == <<"F", "I", "T", "3", "1", "5", "5">>
FIT2004 == <<"F", "I", "T", "2", "0", "0", "4">>
FIT1008 == <<"F", "I", "T", "1", "0", "0", "8">>
FIT1045 == <<"F", "I", "T", "1", "0", "4", "5">>
FIT1053 == <<"F", "I", "T", "1", "0", "5", "3">>
ENG1005 == <<"E", "N", "G", "1", "0", "0", "5">>
MAT1830 == <<"M", "A", "T", "1", "8", "3", "0">>
MTH1030 == <<"M", "T", "H", "1", "0", "3", "0">>
FIT1054 == <<"F", "I", "T", "1", "0", "5", "4">>
FIT2085 == <<"F", "I", "T", "2", "0", "8", "5">>

MockCodes == {FIT3155, FIT2004, FIT1008, FIT1045, FIT1053,
              ENG1005, MAT1830, MTH1030, FIT1054, FIT2085}

MockPrerequisites(c) ==
    CASE c = FIT3155 -> <<[NumReq |-> 1, units |-> <<FIT2004>>]>>
      [] c = FIT2004 -> <<[NumReq |-> 1, units |-> <<FIT1008, FIT1054, FIT2085>>],
                          [NumReq |-> 1, units |-> <<MAT1830, ENG1005, MTH1030>>]>>
      [] c = FIT1008 -> <<[NumReq |-> 1, units |-> <<FIT1045, FIT1053>>]>>
      [] c = FIT1054 -> <<[NumReq |-> 1, units |-> <<FIT1053>>]>>
      [] OTHER -> <<>>

mockUnitsData ==
    [c \in MockCodes |->
        [present |-> TRUE, prerequisites |-> MockPrerequisites(c), offerings |-> <<>>]]

InitMock ==
    /\ CheckIdle
    /\ unitsData = mockUnitsData
    /\ selectedTarget \in MockCodes
    /\ units \in DistinctSeqs(MockCodes, MaxMockPlanner)
    /\ startSemester = "S1"
    /\ startYear \in StartYears
    /\ unitsPerSemester = PATH_UNITS_PER_SEMESTER
    /\ pc = "idle"
    /\ BuildIdle
    /\ SchedIdle
    /\ GraphIdle
    /\ StoreIdle
    /\ DepthIdle
    /\ FetchIdle
    /\ GroupIdle

SpecMock == InitMock /\ [][NextPath]_vars

(***************************************************************************)
(* SpecPlan: inputs of the planner page                                    *)
(***************************************************************************)
MaxPlanUnits == 2
MaxPlanSlots == 2

PlanCodes == {FIT30, FIT10, MAT20}
PlanOptionCodes == {FIT30, FIT10, MAT20, ENG10}
OfferPlanCodes == {FIT30, FIT10}
AllUnitsInOrder == <<FIT30, FIT10, FIT11, MAT20, ENG10, MTH10>>
UnitsPerSemesterOptions == {2, 3, 4, 5, 6}
PartOrFullTime == {2, 4}

\* any small planner over a small catalog
GeneralPlanInputs ==
    /\ units \in DistinctSeqs(PlanCodes, MaxPlanUnits)
    /\ unitsData \in CatalogsUpTo(MaxPlanSlots, plannerCodes, {}, PlanOptionCodes, TRUE)
    /\ startSemester = "S1"
    /\ unitsPerSemester \in PartOrFullTime

\* every assignment of offerings, one prerequisite option at most
OfferPlanInputs ==
    /\ units \in DistinctSeqs(OfferPlanCodes, Cardinality(OfferPlanCodes))
    /\ \E cat \in CatalogsUpTo(1, plannerCodes, {}, OfferPlanCodes, FALSE) :
          unitsData \in WithOfferings(cat, plannerCodes)
    /\ startSemester \in {"S1", "S2"}
    /\ unitsPerSemester \in PartOrFullTime

\* the first k units, none with prerequisites
WidePlanInputs ==
    /\ \E k \in 0..Len(AllUnitsInOrder) :
          units = [i \in 1..k |-> [code |-> AllUnitsInOrder[i]]]
    /\ unitsData \in {EmptyCatalog({}), EmptyCatalog({MTH10})}
    /\ startSemester \in {"S1", "S2"}
    /\ unitsPerSemester \in UnitsPerSemesterOptions

\* the five units of the chain in the planner, first to last or last to first
FiveUnitChainPlanInputs ==
    /\ units \in {[i \in 1..5 |-> [code |-> FiveUnitChain[i]]],
                  [i \in 1..5 |-> [code |-> FiveUnitChain[6 - i]]]}
    /\ unitsData = FiveUnitChainCatalog
    /\ startSemester \in {"S1", "S2"}
    /\ unitsPerSemester \in PartOrFullTime

\* FIT30 asks for one or more of FIT10 and MAT20; MAT20 may be offered in
\* the second semester only
SeveralOfPlanInputs ==
    /\ units \in DistinctSeqs(PlanCodes, Cardinality(PlanCodes))
    /\ \E n \in 1..MaxNumReq :
       \E late \in {<<>>, <<[period |-> PERIOD_SECOND]>>} :
          /\ n <= 2
          /\ unitsData =
                [EmptyCatalog({}) EXCEPT
                    ![FIT30].prerequisites = <<[NumReq |-> n, units |-> <<FIT10, MAT20>>]>>,
                    ![MAT20].offerings = late]
    /\ startSemester \in {"S1", "S2"}
    /\ unitsPerSemester \in PartOrFullTime

InitPlan ==
    /\ CheckIdle
    /\ \/ GeneralPlanInputs
       \/ OfferPlanInputs
       \/ WidePlanInputs
       \/ FiveUnitChainPlanInputs
       \/ SeveralOfPlanInputs
    /\ selectedTarget = FIT30
    /\ startYear \in StartYears
    /\ pc = "plan_idle"
    /\ BuildIdle
    /\ SchedIdle
    /\ GraphIdle
    /\ StoreIdle
    /\ DepthIdle
    /\ FetchIdle
    /\ GroupIdle

SpecPlan == InitPlan /\ [][NextPlan]_vars

\* both pages
SpecSched == (InitPath \/ InitPlan) /\ [][NextPath \/ NextPlan]_vars

(***************************************************************************)
(* SpecCheck: inputs                                                       *)
(***************************************************************************)
MaxCheckGroups == 2
MaxCheckOpts == 2

CheckCodes == {FIT10, MAT20}

SeqsUpTo(S, n) == UNION {[1..k -> S] : k \in 0..n}

CheckGroups ==
    [NumReq : 1..MaxNumReq, units : SeqsUpTo(CheckCodes, MaxCheckOpts)]

RequisiteInputs ==
    {<<>>} \cup {<<[prerequisites |-> gs]>> : gs \in SeqsUpTo(CheckGroups, MaxCheckGroups)}

InitCheck ==
    /\ requisites \in RequisiteInputs
    /\ plannerSet = {}
    /\ checked = FALSE
    /\ checkResult = [met |-> TRUE, missingGroups |-> <<>>]
    /\ checkTrace = <<>>
    /\ unitsData = [c \in AllCodes |-> NoUnit]
    /\ units = <<>>
    /\ selectedTarget = FIT30
    /\ startYear \in StartYears
    /\ startSemester = "S1"
    /\ unitsPerSemester = PATH_UNITS_PER_SEMESTER
    /\ pc = "idle"
    /\ BuildIdle
    /\ SchedIdle
    /\ GraphIdle
    /\ StoreIdle
    /\ DepthIdle
    /\ FetchIdle
    /\ GroupIdle

RunCheck(S) ==
    LET r == checkPrerequisitesMet(requisites, S)
    IN  /\ checkResult' = [met |-> r.met, missingGroups |-> r.missingGroups]
        /\ checkTrace' = r.trace
        /\ checked' = TRUE

\* first evaluation of the memo for the current planner
CheckPrereqs ==
    /\ ~checked
    /\ RunCheck(plannerSet)
    /\ UNCHANGED <<requisites, plannerSet, inputVars, groupVars, fetchVars, startYear, startSemester,
                   unitsPerSemester, pc, buildVars, schedVars,
                   graphVars, storeVars, depthVars>>

\* the planner grows and the memo is recomputed
AddPlannerUnits ==
    /\ checked
    /\ \E add \in (SUBSET CheckCodes) \ {{}} :
          /\ ~(add \subseteq plannerSet)
          /\ plannerSet' = plannerSet \cup add
          /\ RunCheck(plannerSet \cup add)
    /\ UNCHANGED <<requisites, inputVars, groupVars, fetchVars, startYear, startSemester,
                   unitsPerSemester, pc, buildVars, schedVars,
                   graphVars, storeVars, depthVars>>

NextCheck == CheckPrereqs \/ AddPlannerUnits

SpecCheck == InitCheck /\ [][NextCheck]_vars

(***************************************************************************)
(* Claims about checkPrerequisitesMet                                      *)
(***************************************************************************)
CheckGroupsOf(req) == IF req = <<>> THEN <<>> ELSE req[1].prerequisites

\* number of option entries of group g that are in S
CountIn(g, S) == Cardinality({k \in 1..Len(g.units) : g.units[k] \in S})

\* C1: absent requisites or zero groups give met with no missing groups;
\* otherwise a record is emitted, in list order, exactly for the groups
\* whose count of options in S is below NumReq, with needed = NumReq - count
\* and options = the group's options not in S; met iff no record.
C1_CheckContract ==
    checked =>
        LET groups == CheckGroupsOf(requisites)
            low == {i \in 1..Len(groups) :
                       CountIn(groups[i], plannerSet) < groups[i].NumReq}
            mg == checkResult.missingGroups
        IN  /\ (Len(groups) = 0) => (checkResult.met /\ mg = <<>>)
            /\ Len(mg) = Cardinality(low)
            /\ Len(checkTrace) = Len(mg)
            /\ {checkTrace[k] : k \in 1..Len(checkTrace)} = low
            /\ \A k \in 1..Len(checkTrace) - 1 : checkTrace[k] < checkTrace[k + 1]
            /\ \A k \in 1..Len(mg) :
                   LET g == groups[checkTrace[k]]
                   IN  /\ mg[k].needed = g.NumReq - CountIn(g, plannerSet)
                       /\ mg[k].options =
                              SelectSeq(g.units, LAMBDA u : u \notin plannerSet)
            /\ checkResult.met <=> (mg = <<>>)

\* a run with two groups of which only the second is reported, one unit short
C1_Witness ==
    /\ checked
    /\ Len(CheckGroupsOf(requisites)) = 2
    /\ checkTrace = <<2>>
    /\ checkResult.missingGroups[1].needed = 1
    /\ CheckGroupsOf(requisites)[2].NumReq = 2
    /\ ~checkResult.met

\* C2: when the planner grows from S to S', a group not reported under S is
\* not reported under S', met(S) implies met(S'), and a group reported under
\* both needs no more under S' than under S.
C2_Monotone ==
    [][(checked /\ checked' /\ plannerSet \subseteq plannerSet') =>
         LET groups == CheckGroupsOf(requisites)
             TraceIdx(t) == {t[k] : k \in 1..Len(t)}
             NeededAt(t, mg, i) ==
                 mg[CHOOSE k \in 1..Len(t) : t[k] = i].needed
         IN  /\ \A i \in 1..Len(groups) :
                    i \notin TraceIdx(checkTrace) => i \notin TraceIdx(checkTrace')
             /\ checkResult.met => checkResult'.met
             /\ \A i \in TraceIdx(checkTrace) \cap TraceIdx(checkTrace') :
                    NeededAt(checkTrace', checkResult'.missingGroups, i)
                        <= NeededAt(checkTrace, checkResult.missingGroups, i)
      ]_vars

\* after the planner grew, one group is satisfied and the other still reported
C2_Witness ==
    /\ checked
    /\ Cardinality(plannerSet) = 2
    /\ Len(CheckGroupsOf(requisites)) = 2
    /\ checkTrace = <<1>>
    /\ CountIn(CheckGroupsOf(requisites)[2], plannerSet) >= 1

(***************************************************************************)
(* Claims about the two schedulers                                         *)
(***************************************************************************)
IsPlanRun == pc \in {"plan_idle", "plan_scheduling", "plan_done"}

\* the codes of output semester k, in order
SemesterCodes(k) ==
    IF IsPlanRun
    THEN [i \in 1..Len(schedule[k].units) |-> schedule[k].units[i].code]
    ELSE [i \in 1..Len(schedule[k]) |-> schedule[k][i].code]

\* the in-set dependency list the scheduler uses for a unit
DependsOnInSet(code) ==
    IF IsPlanRun THEN getPrereqs(code) ELSE selectedPrereqs(code)

\* the codes handed to the scheduler
SchedulerInputCodes ==
    IF IsPlanRun THEN plannerCodes ELSE {pathNodes[k].code : k \in 1..Len(pathNodes)}

\* C3: every dependency of a placed unit is placed in an earlier-or-equal semester
C3_SchedulerOrdering ==
    \A k \in 1..Len(schedule) :
        \A u \in SeqRange(SemesterCodes(k)) :
            \A d \in SeqRange(DependsOnInSet(u)) :
                \E j \in 1..k : d \in SeqRange(SemesterCodes(j))

\* a finished pathway schedule whose second semester holds a unit that
\* depends on a unit of the first
C3_Witness ==
    /\ pc = "done"
    /\ Len(schedule) >= 2
    /\ \E u \in SeqRange(SemesterCodes(2)) :
          \E d \in SeqRange(selectedPrereqs(u)) : d \in SeqRange(SemesterCodes(1))

\* C4: no output semester holds more units than the cap (unitsPerSemester on
\* the planner page, 4 on the pathway page)
C4_SchedulerCap ==
    \A k \in 1..Len(schedule) :
        Len(SemesterCodes(k)) <= (IF IsPlanRun THEN unitsPerSemester ELSE 4)

\* a pathway run whose first semester is full although a fifth unit, placed
\* in the second, was eligible as well
C4_Witness ==
    /\ pc = "done"
    /\ Len(schedule) >= 2
    /\ Len(SemesterCodes(1)) = 4
    /\ \E k \in 1..Len(pathNodes) :
          /\ pathNodes[k].code \in SeqRange(SemesterCodes(2))
          /\ selectedPrereqs(pathNodes[k].code) = <<>>
          /\ pathNodes[k].semesters = <<>>

AllScheduledCodes ==
    UNION {SeqRange(SemesterCodes(k)) : k \in 1..Len(schedule)}

\* C5: the loop stops after at most 20 (pathway) or 30 (planner) rounds and
\* can always take its next step; the output holds only units of the input,
\* each at most once
C5_SchedulerTermination ==
    /\ iterations <= (IF IsPlanRun THEN 30 ELSE 20)
    /\ (pc = "scheduling") => ENABLED (SchedulePathRound \/ SchedulePathReturn)
    /\ (pc = "plan_scheduling") => ENABLED (SchedulePlanRound \/ SchedulePlanReturn)
    /\ AllScheduledCodes \subseteq SchedulerInputCodes
    /\ \A k \in 1..Len(schedule) :
          /\ \A i, j \in 1..Len(SemesterCodes(k)) :
                SemesterCodes(k)[i] = SemesterCodes(k)[j] => i = j
          /\ \A j \in 1..(k - 1) :
                SeqRange(SemesterCodes(k)) \cap SeqRange(SemesterCodes(j)) = {}
    /\ (pc \in {"done", "plan_done"}) =>
          AllScheduledCodes \cap {remaining[k].code : k \in 1..Len(remaining)} = {}

\* a pathway run that used all 20 rounds and returned without the stuck units
C5_Witness ==
    /\ pc = "done"
    /\ iterations = 20
    /\ Len(remaining) > 0
    /\ Len(schedule) > 0

(***************************************************************************)
(* Claims about buildPath                                                  *)
(***************************************************************************)
AfterBuild == pc \in {"built", "scheduling", "done"}

PathCodes == [k \in 1..Len(pathNodes) |-> pathNodes[k].code]

PathPos(code) == CHOOSE k \in 1..Len(pathNodes) : pathNodes[k].code = code

\* no unit can reach itself through prerequisite options
AcyclicCatalog ==
    \A c \in AllCodes : c \notin ReachableFrom(unitsData, OptionCodes(unitsData, c))

\* C6: the result is empty exactly when the target is absent from the
\* catalog or in the planner set; otherwise the target is its last element;
\* a target without prerequisite groups resolves to exactly [target]
C6_PathShape ==
    AfterBuild =>
        /\ (pathNodes = <<>>) <=>
              (~unitsData[selectedTarget].present \/ selectedTarget \in plannerCodes)
        /\ (pathNodes # <<>>) => (PathCodes[Len(pathNodes)] = selectedTarget)
        /\ (/\ unitsData[selectedTarget].present
            /\ selectedTarget \notin plannerCodes
            /\ Len(Prereqs(selectedTarget)) = 0) => (PathCodes = <<selectedTarget>>)

\* a resolved pathway of three units or more
C6_Witness ==
    /\ AfterBuild
    /\ Len(pathNodes) >= 3
    /\ PathCodes[Len(pathNodes)] = selectedTarget

RECURSIVE SumOver(_, _)
SumOver(S, w) ==
    IF S = {} THEN 0
    ELSE LET x == CHOOSE y \in S : TRUE
         IN  w[x] + SumOver(S \ {x}, w)

\* steps buildRecursive still has to take at most: the groups left and the
\* push of every active call, and the groups and the push of every unit not
\* visited yet
BuildWorkLeft ==
    SumOver(1..Len(stack),
            [k \in 1..Len(stack) |-> Len(Prereqs(stack[k].code)) - stack[k].gi + 2])
    + SumOver(AllCodes \ visited, [c \in AllCodes |-> Len(Prereqs(c)) + 1])

\* the work of resolving the whole catalog
BuildWorkTotal == SumOver(AllCodes, [c \in AllCodes |-> Len(Prereqs(c)) + 1])

\* C7: for any catalog, cyclic ones included, the recursion is never deeper
\* than the catalog has units, the steps taken and the work left never
\* exceed the work the catalog allows, and no code appears twice in the result
C7_PathTermination ==
    /\ (pc = "building") =>
          /\ Len(stack) <= Cardinality({c \in AllCodes : unitsData[c].present})
          /\ BuildWorkLeft >= 0
          /\ buildSteps + BuildWorkLeft <= BuildWorkTotal
    /\ buildSteps <= BuildWorkTotal
    /\ AfterBuild =>
          \A i, j \in 1..Len(pathNodes) : PathCodes[i] = PathCodes[j] => i = j

\* a resolved pathway over a cycle: the unit chosen for the target requires
\* the target back
C7_Witness ==
    /\ AfterBuild
    /\ Len(pathNodes) >= 2
    /\ \E o \in AllCodes \ {selectedTarget} :
          /\ \E gi \in 1..Len(Prereqs(selectedTarget)) :
                <<selectedTarget, gi, o, TRUE>> \in chosen
          /\ \E gj \in 1..Len(Prereqs(o)) : <<o, gj, selectedTarget, TRUE>> \in chosen

\* C8: for an acyclic catalog every unit of the result comes after each
\* option chosen for one of its groups that is in the result as well
C8_PathOrder ==
    (AfterBuild /\ AcyclicCatalog) =>
        \A ch \in chosen :
            (/\ ch[3] # <<>>
             /\ ch[1] \in SeqRange(PathCodes)
             /\ ch[3] \in SeqRange(PathCodes)) => PathPos(ch[3]) < PathPos(ch[1])

\* C9: no code of the result is in the planner set, and a group with an
\* option in the planner set makes no recursive call
C9_RespectsPlanner ==
    /\ AfterBuild => \A k \in 1..Len(pathNodes) : PathCodes[k] \notin plannerCodes
    /\ \A ch \in chosen :
          (SeqRange(Prereqs(ch[1])[ch[2]].units) \cap plannerCodes # {}) =>
              (ch[3] \in plannerCodes /\ ~ch[4])

\* a resolved pathway with a two-option group whose second option is in the planner
C9_Witness ==
    /\ AfterBuild
    /\ Len(pathNodes) >= 1
    /\ \E ch \in chosen :
          LET opts == Prereqs(ch[1])[ch[2]].units
          IN  /\ Len(opts) >= 2
              /\ opts[1] \notin plannerCodes
              /\ unitsData[opts[1]].present
              /\ opts[2] \in plannerCodes
              /\ ch[3] = opts[2]

\* the score of the claim
HeuristicScore(o, parentCode) ==
    LET related == RELATED_PREFIXES(getPrefix(parentCode))
        rank == {k \in 1..Len(related) :
                    related[k] = getPrefix(o) /\ \A j \in 1..(k - 1) : related[j] # getPrefix(o)}
        bonus == IF rank = {} THEN 0 ELSE 100 * (10 - ((CHOOSE k \in rank : TRUE) - 1))
    IN  bonus - 10 * getPrereqDepth(o, {}) - getUnitLevel(o)

\* C10: for a group of two or more options, none in the planner set, the
\* option chosen is the catalog-present option of highest score, the one
\* listed first among those of equal score
C10_SelectionHeuristic ==
    \A ch \in chosen :
        LET opts == Prereqs(ch[1])[ch[2]].units
            present == {k \in 1..Len(opts) : unitsData[opts[k]].present}
        IN  (/\ Len(opts) >= 2
             /\ SeqRange(opts) \cap plannerCodes = {}
             /\ present # {}) =>
                \E k \in present :
                    /\ ch[3] = opts[k]
                    /\ \A j \in present :
                          /\ HeuristicScore(opts[j], ch[1]) <= HeuristicScore(opts[k], ch[1])
                          /\ (j < k) =>
                                HeuristicScore(opts[j], ch[1]) < HeuristicScore(opts[k], ch[1])

\* a group of three catalog-present options, none in the planner: the first
\* scores lower, the second and third score the same, the second is chosen
C10_Witness ==
    /\ AfterBuild
    /\ \E ch \in chosen :
          LET opts == Prereqs(ch[1])[ch[2]].units
          IN  /\ Len(opts) = 3
              /\ SeqRange(opts) \cap plannerCodes = {}
              /\ \A k \in 1..3 : unitsData[opts[k]].present
              /\ opts[2] # opts[3]
              /\ HeuristicScore(opts[1], ch[1]) < HeuristicScore(opts[2], ch[1])
              /\ HeuristicScore(opts[2], ch[1]) = HeuristicScore(opts[3], ch[1])
              /\ ch[3] = opts[2]
              /\ ch[4]

(***************************************************************************)
(* network.json generation (setup script): nodesMap, then one action per   *)
(* unit of the loop that records the links                                 *)
(***************************************************************************)
\* Object.values(data): the units in key order
DataValues == SelectSeq(AllUnitsInOrder, LAMBDA c : unitsData[c].present)

\* the reqCode values of the groups for which "if (data[reqCode])" holds,
\* in loop order
RECURSIVE LinkedCodes(_)
LinkedCodes(groups) ==
    IF groups = <<>> THEN <<>>
    ELSE SelectSeq(groups[1].units, LAMBDA reqCode : unitsData[reqCode].present)
             \o LinkedCodes(Tail(groups))

\* faulty variant: the corequisites are not read
UnitLinkedCodesNoCoreq(code) == LinkedCodes(unitsData[code].prerequisites)

\* the prerequisites loop, then the corequisites loop
UnitLinkedCodes(code) ==
    LinkedCodes(unitsData[code].prerequisites)
        \o LinkedCodes(unitsData[code].corequisites)

\* requires.push(reqCode) on the unit and unlocks.push(unit.code) on reqCode
PushLink(nm, reqCode, code) ==
    LET pushed == [nm EXCEPT ![code].requires = Append(@, reqCode)]
    IN  [pushed EXCEPT ![reqCode].unlocks = Append(@, code)]

RECURSIVE PushLinks(_, _, _)
PushLinks(nm, reqCodes, code) ==
    IF reqCodes = <<>> THEN nm
    ELSE PushLinks(PushLink(nm, reqCodes[1], code), Tail(reqCodes), code)

\* the first loop: one node per unit of the catalog
GenerateNodes ==
    /\ pc = "graph_idle"
    /\ nodesMap' = [c \in {DataValues[k] : k \in 1..Len(DataValues)} |->
                        [id |-> c, unlocks |-> <<>>, requires |-> <<>>]]
    /\ links' = <<>>
    /\ unitIndex' = 0
    /\ pc' = "graph_linking"
    /\ UNCHANGED <<checkVars, inputVars, groupVars, fetchVars, startYear, startSemester, unitsPerSemester,
                   buildVars, schedVars, depthVars, storeVars>>

\* one iteration of the second loop
GenerateLinks ==
    /\ pc = "graph_linking"
    /\ unitIndex < Len(DataValues)
    /\ LET code == DataValues[unitIndex + 1]
           reqCodes == UnitLinkedCodes(code)
       IN  /\ links' = links \o [k \in 1..Len(reqCodes) |->
                                    [source |-> reqCodes[k], target |-> code]]
           /\ nodesMap' = PushLinks(nodesMap, reqCodes, code)
    /\ unitIndex' = unitIndex + 1
    /\ UNCHANGED <<checkVars, inputVars, groupVars, fetchVars, startYear, startSemester, unitsPerSemester,
                   pc, buildVars, schedVars, depthVars, storeVars>>

\* the loop is over: networkData is written
GenerateWrite ==
    /\ pc = "graph_linking"
    /\ unitIndex = Len(DataValues)
    /\ pc' = "graph_done"
    /\ UNCHANGED <<checkVars, inputVars, groupVars, fetchVars, startYear, startSemester, unitsPerSemester,
                   buildVars, schedVars, graphVars, storeVars, depthVars>>

NextGraph == GenerateNodes \/ GenerateLinks \/ GenerateWrite

(***************************************************************************)
(* SpecGraph: catalogs with at most MaxGraphSlots option entries in their  *)
(* prerequisite and corequisite groups together                            *)
(***************************************************************************)
MaxGraphSlots == 2

GraphUnits == {FIT10, MAT20, ENG10}

GraphUnit ==
    [present |-> TRUE, prerequisites |-> <<>>, corequisites |-> <<>>, offerings |-> <<>>]

GraphEmptyCatalog(absent) ==
    [c \in AllCodes |-> IF c \in GraphUnits \ absent THEN GraphUnit ELSE NoUnit]

\* the catalogs with one option entry more
GraphExtend(cat) ==
    LET P == {u \in GraphUnits : cat[u].present}
        lastOf(groups) == Len(groups)
    IN  {[cat EXCEPT ![u].prerequisites = Append(@, [NumReq |-> 1, units |-> <<o>>])] :
             u \in P, o \in GraphUnits}
        \cup {[cat EXCEPT ![u].corequisites = Append(@, [NumReq |-> 1, units |-> <<o>>])] :
             u \in P, o \in GraphUnits}
        \cup {[cat EXCEPT ![u].prerequisites[lastOf(cat[u].prerequisites)].units =
                              Append(@, o)] :
             u \in {x \in P : cat[x].prerequisites # <<>>}, o \in GraphUnits}
        \cup {[cat EXCEPT ![u].corequisites[lastOf(cat[u].corequisites)].units =
                              Append(@, o)] :
             u \in {x \in P : cat[x].corequisites # <<>>}, o \in GraphUnits}

RECURSIVE GraphCatalogsUpTo(_, _)
GraphCatalogsUpTo(n, absent) ==
    IF n = 0 THEN {GraphEmptyCatalog(absent)}
    ELSE LET smaller == GraphCatalogsUpTo(n - 1, absent)
         IN  smaller \cup UNION {GraphExtend(cat) : cat \in smaller}

InitGraph ==
    /\ CheckIdle
    /\ \E absent \in {{}, {ENG10}} : unitsData \in GraphCatalogsUpTo(MaxGraphSlots, absent)
    /\ units = <<>>
    /\ selectedTarget = FIT30
    /\ startYear \in StartYears
    /\ startSemester = "S1"
    /\ unitsPerSemester = PATH_UNITS_PER_SEMESTER
    /\ pc = "graph_idle"
    /\ BuildIdle
    /\ SchedIdle
    /\ GraphIdle
    /\ StoreIdle
    /\ DepthIdle
    /\ FetchIdle
    /\ GroupIdle

SpecGraph == InitGraph /\ [][NextGraph]_vars

(***************************************************************************)
(* getPrereqDepth of the types module: every recursive call receives its   *)
(* own copy of visited, so visited holds the units on the way down only    *)
(***************************************************************************)
RECURSIVE typesGetPrereqDepth(_, _)
RECURSIVE TypesGroupLoopAnyOption(_, _, _, _)
RECURSIVE TypesGroupLoop(_, _, _, _)
RECURSIVE TypesMaxDepthLoop(_, _, _, _)

\* faulty variant: an option absent from unitsData counts with depth 0
TypesGroupLoopAnyOption(opts, k, minGroupDepth, seen) ==
    IF k > Len(opts) THEN minGroupDepth
    ELSE LET depth == IF unitsData[opts[k]].present
                      THEN typesGetPrereqDepth(opts[k], seen)
                      ELSE 0
             newMin == IF minGroupDepth = <<>> \/ depth < minGroupDepth[1]
                       THEN <<depth>> ELSE minGroupDepth
         IN  TypesGroupLoopAnyOption(opts, k + 1, newMin, seen)

\* for (const prereqCode of group.units); minGroupDepth is <<>> for Infinity
TypesGroupLoop(opts, k, minGroupDepth, seen) ==
    IF k > Len(opts) THEN minGroupDepth
    ELSE IF unitsData[opts[k]].present
    THEN LET depth == typesGetPrereqDepth(opts[k], seen)
             newMin == IF minGroupDepth = <<>> \/ depth < minGroupDepth[1]
                       THEN <<depth>> ELSE minGroupDepth
         IN  TypesGroupLoop(opts, k + 1, newMin, seen)
    ELSE TypesGroupLoop(opts, k + 1, minGroupDepth, seen)

\* for (const group of unit.requisites.prerequisites)
TypesMaxDepthLoop(groups, i, maxDepth, seen) ==
    IF i > Len(groups) THEN maxDepth
    ELSE LET minGroupDepth == TypesGroupLoop(groups[i].units, 1, <<>>, seen)
         IN  TypesMaxDepthLoop(groups, i + 1,
                 IF minGroupDepth # <<>> /\ minGroupDepth[1] + 1 > maxDepth
                 THEN minGroupDepth[1] + 1 ELSE maxDepth,
                 seen)

\* faulty variant: a unit met again on the way down counts one level
typesGetPrereqDepthRevisitCounts(unitCode, seen) ==
    IF unitCode \in seen THEN 1
    ELSE IF ~unitsData[unitCode].present \/ Len(unitsData[unitCode].prerequisites) = 0
    THEN 0
    ELSE TypesMaxDepthLoop(unitsData[unitCode].prerequisites, 1, 0, seen \cup {unitCode})

typesGetPrereqDepth(unitCode, seen) ==
    IF unitCode \in seen THEN 0
    ELSE IF ~unitsData[unitCode].present \/ Len(unitsData[unitCode].prerequisites) = 0
    THEN 0
    ELSE TypesMaxDepthLoop(unitsData[unitCode].prerequisites, 1, 0, seen \cup {unitCode})

\* a caller of the exported function, with the default visited = new Set()
CallGetPrereqDepth ==
    /\ pc = "depth_idle"
    /\ depthResult' = <<typesGetPrereqDepth(selectedTarget, {})>>
    /\ pc' = "depth_done"
    /\ UNCHANGED <<checkVars, inputVars, groupVars, fetchVars, startYear, startSemester, unitsPerSemester,
                   buildVars, schedVars, graphVars, storeVars>>

NextDepth == CallGetPrereqDepth

(***************************************************************************)
(* SpecDepth: catalogs and unit codes handed to getPrereqDepth             *)
(***************************************************************************)
MaxDepthSlots == 3

DepthUnits == {FIT30, FIT10, FIT11}
DepthCodes == DepthUnits \cup {MAT20}
DepthTargets == {FIT30, MAT20}
\* everything in the catalog, MAT20 missing, or a catalog of FIT30 and FIT10 only
DepthAbsentChoices == {{}, {MAT20}, AllCodes \ {FIT30, FIT10}}

InitDepth ==
    /\ CheckIdle
    /\ \E absent \in DepthAbsentChoices :
          unitsData \in CatalogsUpTo(MaxDepthSlots, DepthUnits, absent, DepthCodes, TRUE)
    /\ units = <<>>
    /\ selectedTarget \in DepthTargets
    /\ startYear \in StartYears
    /\ startSemester = "S1"
    /\ unitsPerSemester = PATH_UNITS_PER_SEMESTER
    /\ pc = "depth_idle"
    /\ BuildIdle
    /\ SchedIdle
    /\ GraphIdle
    /\ StoreIdle
    /\ DepthIdle
    /\ FetchIdle
    /\ GroupIdle

SpecDepth == InitDepth /\ [][NextDepth]_vars

(***************************************************************************)
(* calculateGroupCompletion (plannerStore): a requirement group is         *)
(* [id, parent_id, type, num_required, units]; null is <<>>                *)
(***************************************************************************)
\* group.num_required || 1
NumRequiredOrOne(group) ==
    IF group.num_required = <<>> \/ group.num_required[1] = 0 THEN 1
    ELSE group.num_required[1]

\* group.units.filter(u => completedUnits.has(u)).length
UnitsCompleted(group) ==
    Len(SelectSeq(group.units, LAMBDA u : u \in completedUnits))

UnitsRequired(group) ==
    IF group.type = "AND" THEN Len(group.units)
    ELSE IF NumRequiredOrOne(group) < Len(group.units) THEN NumRequiredOrOne(group)
    ELSE Len(group.units)

\* allGroups.filter(g => g.parent_id === group.id)
ChildrenOf(group) == SelectSeq(allGroups, LAMBDA g : g.parent_id = <<group.id>>)

RECURSIVE calculateGroupCompletion(_)
RECURSIVE ChildrenLoop(_, _, _)

\* for (const child of children): <<childrenComplete, childrenRequired>>
ChildrenLoop(children, k, counts) ==
    IF k > Len(children) THEN counts
    ELSE LET childResult == calculateGroupCompletion(children[k])
         IN  ChildrenLoop(children, k + 1,
                 <<IF childResult.isComplete THEN counts[1] + 1 ELSE counts[1],
                   counts[2] + 1>>)

calculateGroupCompletion(group) ==
    LET unitsCompleted == UnitsCompleted(group)
        unitsRequired == UnitsRequired(group)
        counts == ChildrenLoop(ChildrenOf(group), 1, <<0, 0>>)
        childrenComplete == counts[1]
        childrenRequired == counts[2]
    IN  [completed |-> unitsCompleted + childrenComplete,
         required |-> unitsRequired + childrenRequired,
         isComplete |->
            IF group.type = "AND"
            THEN unitsCompleted >= unitsRequired /\ childrenComplete >= childrenRequired
            ELSE unitsCompleted >= unitsRequired
                 \/ childrenComplete >= NumRequiredOrOne(group)]

\* a caller asking for the completion of the first group of the program
CallGroupCompletion ==
    /\ pc = "group_idle"
    /\ completion' = <<calculateGroupCompletion(allGroups[1])>>
    /\ pc' = "group_done"
    /\ UNCHANGED <<checkVars, inputVars, allGroups, completedUnits, fetchVars, startYear,
                   startSemester, unitsPerSemester, buildVars, schedVars, graphVars,
                   storeVars, depthVars>>

NextGroup == CallGroupCompletion

(***************************************************************************)
(* SpecGroup: requirement trees handed to calculateGroupCompletion         *)
(***************************************************************************)
MaxReqGroups == 3
MaxReqUnits == 2
MaxNumRequired == 2

GroupCodes == {FIT10, MAT20}
GroupTypes == {"AND", "OR"}
NumRequiredChoices == {<<>>} \cup {<<n>> : n \in 1..MaxNumRequired}

\* sequences of distinct codes, at most n long
RECURSIVE CodeSeqs(_, _)
CodeSeqs(codes, n) ==
    IF n = 0 THEN {<<>>}
    ELSE LET shorter == CodeSeqs(codes, n - 1)
         IN  shorter \cup {Append(q, c) :
                             <<q, c>> \in {x \in shorter \X codes :
                                 \A k \in 1..Len(x[1]) : x[1][k] # x[2]}}

\* the first group is a root of any shape; group k > 1 hangs under an
\* earlier group, so the groups form a tree
RequirementGroup(k, parents) ==
    IF k = 1
    THEN [id : {1}, parent_id : {<<>>}, type : GroupTypes,
          num_required : NumRequiredChoices, units : CodeSeqs(GroupCodes, MaxReqUnits)]
    ELSE [id : {k}, parent_id : {<<q>> : q \in parents}, type : GroupTypes,
          num_required : {<<>>}, units : CodeSeqs(GroupCodes, 1)]

\* the lists of n groups
RECURSIVE RequirementTrees(_)
RequirementTrees(n) ==
    IF n = 0 THEN {<<>>}
    ELSE {Append(groups, g) :
             groups \in RequirementTrees(n - 1), g \in RequirementGroup(n, 1..(n - 1))}

InitGroup ==
    /\ CheckIdle
    /\ unitsData = EmptyCatalog({})
    /\ units = <<>>
    /\ selectedTarget = FIT30
    /\ startYear \in StartYears
    /\ startSemester = "S1"
    /\ unitsPerSemester = PATH_UNITS_PER_SEMESTER
    /\ pc = "group_idle"
    /\ BuildIdle
    /\ SchedIdle
    /\ GraphIdle
    /\ StoreIdle
    /\ DepthIdle
    /\ FetchIdle
    /\ \E n \in 1..MaxReqGroups : allGroups \in RequirementTrees(n)
    /\ completedUnits \in SUBSET GroupCodes
    /\ completion = <<>>

SpecGroup == InitGroup /\ [][NextGroup]_vars

(***************************************************************************)
(* fetchData (hooks): every hook runs one call; a call is suspended at     *)
(* await fetch(path) and at await response.json()                          *)
(***************************************************************************)
MaxHooks == 2

Hooks == 1..MaxHooks
CacheKeys == {"units", "aos"}
CatalogSnapshots == {"snapshot 1", "snapshot 2"}

NotCalled == [at |-> "not called", cacheKey |-> "", value |-> <<>>]

FetchFrame ==
    UNCHANGED <<checkVars, inputVars, groupVars, startYear, startSemester,
                unitsPerSemester, pc, buildVars, schedVars, graphVars, storeVars,
                depthVars>>

\* fetchData up to its first await: the cache test and the call of fetch
FetchDataCall(h, cacheKey) ==
    /\ pc = "fetch"
    /\ calls[h].at = "not called"
    /\ IF dataCache[cacheKey] # <<>>
       THEN /\ calls' = [calls EXCEPT ![h] = [at |-> "resolved", cacheKey |-> cacheKey,
                                              value |-> dataCache[cacheKey]]]
            /\ UNCHANGED requestCount
       ELSE /\ calls' = [calls EXCEPT ![h] = [at |-> "await fetch", cacheKey |-> cacheKey,
                                              value |-> <<>>]]
            /\ requestCount' = [requestCount EXCEPT ![cacheKey] = @ + 1]
    /\ UNCHANGED dataCache
    /\ FetchFrame

\* the response arrives: !response.ok throws, else response.json() is awaited
FetchResponse(h, ok) ==
    /\ pc = "fetch"
    /\ calls[h].at = "await fetch"
    /\ calls' = [calls EXCEPT ![h].at = IF ok THEN "await json" ELSE "rejected"]
    /\ UNCHANGED <<dataCache, requestCount>>
    /\ FetchFrame

\* the body is parsed: the data is stored in the cache and returned
FetchJson(h, data) ==
    /\ pc = "fetch"
    /\ calls[h].at = "await json"
    /\ dataCache' = [dataCache EXCEPT ![calls[h].cacheKey] = <<data>>]
    /\ calls' = [calls EXCEPT ![h].at = "resolved", ![h].value = <<data>>]
    /\ UNCHANGED requestCount
    /\ FetchFrame

NextFetch ==
    \/ \E h \in Hooks, cacheKey \in CacheKeys : FetchDataCall(h, cacheKey)
    \/ \E h \in Hooks, ok \in BOOLEAN : FetchResponse(h, ok)
    \/ \E h \in Hooks, data \in CatalogSnapshots : FetchJson(h, data)

InitFetch ==
    /\ CheckIdle
    /\ unitsData = EmptyCatalog({})
    /\ units = <<>>
    /\ selectedTarget = FIT30
    /\ startYear \in StartYears
    /\ startSemester = "S1"
    /\ unitsPerSemester = PATH_UNITS_PER_SEMESTER
    /\ pc = "fetch"
    /\ BuildIdle
    /\ SchedIdle
    /\ GraphIdle
    /\ StoreIdle
    /\ DepthIdle
    /\ GroupIdle
    /\ dataCache = [k \in CacheKeys |-> <<>>]
    /\ requestCount = [k \in CacheKeys |-> 0]
    /\ calls = [h \in Hooks |-> NotCalled]

SpecFetch == InitFetch /\ [][NextFetch]_vars

(***************************************************************************)
(* SpecStore: arguments of the store actions                               *)
(***************************************************************************)
MaxPlanIds == 2

StoreCodes == {FIT10, MAT20}
ProgramCodes == {"C2001"}
ProgramType(code) == "course"
PlanNames == {"Plan A", "Plan B"}

(***************************************************************************)
(* The planner store (usePlannerStore), one action per store action        *)
(***************************************************************************)
\* units.some(u => u.code === code)
hasUnit(code) == \E k \in 1..Len(units) : units[k].code = code

\* trackedPrograms.some(p => p.code === code)
hasProgram(code) == \E k \in 1..Len(trackedPrograms) : trackedPrograms[k].code = code

\* savedPlans.find(p => p.id === planId): <<>> when there is none
findPlan(planId) == find(savedPlans, {p \in SeqRange(savedPlans) : p.id = planId})

\* faulty variant: no check for a unit that is in the planner already
addUnitNoCheck(code) ==
    /\ pc = "store"
    /\ units' = Append(units, [code |-> code])
    /\ UNCHANGED <<checkVars, unitsData, selectedTarget, groupVars, fetchVars, startYear, startSemester,
                   unitsPerSemester, pc, buildVars, schedVars, graphVars, storeVars, depthVars>>

addUnit(code) ==
    /\ pc = "store"
    /\ IF hasUnit(code)
       THEN UNCHANGED units
       ELSE units' = Append(units, [code |-> code])
    /\ UNCHANGED <<checkVars, unitsData, selectedTarget, groupVars, fetchVars, startYear, startSemester,
                   unitsPerSemester, pc, buildVars, schedVars, graphVars, storeVars, depthVars>>

removeUnit(code) ==
    /\ pc = "store"
    /\ units' = SelectSeq(units, LAMBDA u : u.code # code)
    /\ UNCHANGED <<checkVars, unitsData, selectedTarget, groupVars, fetchVars, startYear, startSemester,
                   unitsPerSemester, pc, buildVars, schedVars, graphVars, storeVars, depthVars>>

addProgram(code, type) ==
    /\ pc = "store"
    /\ IF hasProgram(code)
       THEN UNCHANGED trackedPrograms
       ELSE trackedPrograms' = Append(trackedPrograms, [code |-> code, type |-> type])
    /\ UNCHANGED <<checkVars, inputVars, groupVars, fetchVars, startYear, startSemester, unitsPerSemester,
                   pc, buildVars, schedVars, graphVars, depthVars, savedPlans, currentPlanId, nextId>>

removeProgram(code) ==
    /\ pc = "store"
    /\ trackedPrograms' = SelectSeq(trackedPrograms, LAMBDA p : p.code # code)
    /\ UNCHANGED <<checkVars, inputVars, groupVars, fetchVars, startYear, startSemester, unitsPerSemester,
                   pc, buildVars, schedVars, graphVars, depthVars, savedPlans, currentPlanId, nextId>>

\* generateId() gives nextId; at most MaxPlanIds plans are ever saved
savePlan(name) ==
    /\ pc = "store"
    /\ nextId <= MaxPlanIds
    /\ savedPlans' = Append(savedPlans,
           [id |-> nextId, name |-> name, units |-> units,
            trackedPrograms |-> trackedPrograms])
    /\ currentPlanId' = <<nextId>>
    /\ nextId' = nextId + 1
    /\ UNCHANGED <<checkVars, inputVars, groupVars, fetchVars, startYear, startSemester, unitsPerSemester,
                   pc, buildVars, schedVars, graphVars, depthVars, trackedPrograms>>

loadPlan(planId) ==
    /\ pc = "store"
    /\ LET plan == findPlan(planId)
       IN  IF plan = <<>>
           THEN UNCHANGED <<units, trackedPrograms, currentPlanId>>
           ELSE /\ units' = plan[1].units
                /\ trackedPrograms' = plan[1].trackedPrograms
                /\ currentPlanId' = <<planId>>
    /\ UNCHANGED <<checkVars, unitsData, selectedTarget, groupVars, fetchVars, startYear, startSemester,
                   unitsPerSemester, pc, buildVars, schedVars, graphVars, depthVars,
                   savedPlans, nextId>>

\* faulty variant: currentPlanId keeps the id of the deleted plan
deletePlanKeepsCurrent(planId) ==
    /\ pc = "store"
    /\ savedPlans' = SelectSeq(savedPlans, LAMBDA p : p.id # planId)
    /\ UNCHANGED <<checkVars, inputVars, groupVars, fetchVars, startYear, startSemester,
                   unitsPerSemester, pc, buildVars, schedVars, graphVars, depthVars,
                   trackedPrograms, currentPlanId, nextId>>

deletePlan(planId) ==
    /\ pc = "store"
    /\ savedPlans' = SelectSeq(savedPlans, LAMBDA p : p.id # planId)
    /\ currentPlanId' = IF currentPlanId = <<planId>> THEN <<>> ELSE currentPlanId
    /\ UNCHANGED <<checkVars, inputVars, groupVars, fetchVars, startYear, startSemester, unitsPerSemester,
                   pc, buildVars, schedVars, graphVars, depthVars, trackedPrograms, nextId>>

renamePlan(planId, newName) ==
    /\ pc = "store"
    /\ savedPlans' = [k \in 1..Len(savedPlans) |->
                          IF savedPlans[k].id = planId
                          THEN [savedPlans[k] EXCEPT !.name = newName]
                          ELSE savedPlans[k]]
    /\ UNCHANGED <<checkVars, inputVars, groupVars, fetchVars, startYear, startSemester, unitsPerSemester,
                   pc, buildVars, schedVars, graphVars, depthVars, trackedPrograms,
                   currentPlanId, nextId>>

\* faulty variant: every saved plan is overwritten, not the current one only
updateCurrentPlanEveryPlan ==
    /\ pc = "store"
    /\ IF currentPlanId = <<>>
       THEN UNCHANGED savedPlans
       ELSE savedPlans' = [k \in 1..Len(savedPlans) |->
                              [savedPlans[k] EXCEPT
                                  !.units = units,
                                  !.trackedPrograms = trackedPrograms]]
    /\ UNCHANGED <<checkVars, inputVars, groupVars, fetchVars, startYear, startSemester,
                   unitsPerSemester, pc, buildVars, schedVars, graphVars, depthVars,
                   trackedPrograms, currentPlanId, nextId>>

updateCurrentPlan ==
    /\ pc = "store"
    /\ IF currentPlanId = <<>>
       THEN UNCHANGED savedPlans
       ELSE savedPlans' = [k \in 1..Len(savedPlans) |->
                              IF savedPlans[k].id = currentPlanId[1]
                              THEN [savedPlans[k] EXCEPT
                                       !.units = units,
                                       !.trackedPrograms = trackedPrograms]
                              ELSE savedPlans[k]]
    /\ UNCHANGED <<checkVars, inputVars, groupVars, fetchVars, startYear, startSemester, unitsPerSemester,
                   pc, buildVars, schedVars, graphVars, depthVars, trackedPrograms,
                   currentPlanId, nextId>>

newPlan ==
    /\ pc = "store"
    /\ units' = <<>>
    /\ trackedPrograms' = <<>>
    /\ currentPlanId' = <<>>
    /\ UNCHANGED <<checkVars, unitsData, selectedTarget, groupVars, fetchVars, startYear, startSemester,
                   unitsPerSemester, pc, buildVars, schedVars, graphVars, depthVars,
                   savedPlans, nextId>>

\* faulty variant: the saved plans are cleared as well
clearAllWithPlans ==
    /\ pc = "store"
    /\ units' = <<>>
    /\ trackedPrograms' = <<>>
    /\ currentPlanId' = <<>>
    /\ savedPlans' = <<>>
    /\ UNCHANGED <<checkVars, unitsData, selectedTarget, groupVars, fetchVars, startYear, startSemester,
                   unitsPerSemester, pc, buildVars, schedVars, graphVars, depthVars, nextId>>

clearAll ==
    /\ pc = "store"
    /\ units' = <<>>
    /\ trackedPrograms' = <<>>
    /\ currentPlanId' = <<>>
    /\ UNCHANGED <<checkVars, unitsData, selectedTarget, groupVars, fetchVars, startYear, startSemester,
                   unitsPerSemester, pc, buildVars, schedVars, graphVars, depthVars,
                   savedPlans, nextId>>

clearUnits ==
    /\ pc = "store"
    /\ units' = <<>>
    /\ UNCHANGED <<checkVars, unitsData, selectedTarget, groupVars, fetchVars, startYear, startSemester,
                   unitsPerSemester, pc, buildVars, schedVars, graphVars, storeVars, depthVars>>

clearPrograms ==
    /\ pc = "store"
    /\ trackedPrograms' = <<>>
    /\ UNCHANGED <<checkVars, inputVars, groupVars, fetchVars, startYear, startSemester, unitsPerSemester,
                   pc, buildVars, schedVars, graphVars, depthVars, savedPlans, currentPlanId, nextId>>

NextStore ==
    \/ \E code \in StoreCodes : addUnit(code)
    \/ \E code \in StoreCodes : removeUnit(code)
    \/ \E code \in ProgramCodes : addProgram(code, ProgramType(code))
    \/ \E code \in ProgramCodes : removeProgram(code)
    \/ \E name \in PlanNames : savePlan(name)
    \/ \E planId \in 1..MaxPlanIds : loadPlan(planId)
    \/ \E planId \in 1..MaxPlanIds : deletePlan(planId)
    \/ \E planId \in 1..MaxPlanIds, newName \in PlanNames : renamePlan(planId, newName)
    \/ updateCurrentPlan
    \/ newPlan
    \/ clearAll
    \/ clearUnits
    \/ clearPrograms

InitStore ==
    /\ CheckIdle
    /\ unitsData = EmptyCatalog({})
    /\ units = <<>>
    /\ selectedTarget = FIT30
    /\ startYear \in StartYears
    /\ startSemester = "S1"
    /\ unitsPerSemester = PATH_UNITS_PER_SEMESTER
    /\ pc = "store"
    /\ BuildIdle
    /\ SchedIdle
    /\ GraphIdle
    /\ StoreIdle
    /\ DepthIdle
    /\ FetchIdle
    /\ GroupIdle

SpecStore == InitStore /\ [][NextStore]_vars

(***************************************************************************)
(* Claims about the shape of the pathway                                   *)
(***************************************************************************)
\* the number of prerequisite groups of the units of the result
GroupsInPath == SumOver(SeqRange(PathCodes), [c \in AllCodes |-> Len(Prereqs(c))])

\* C11: every non-target element of the result is the option chosen, and
\* entered, for a prerequisite group of another element of the result; a
\* group has one chosen option; the result is no longer than 1 + the number
\* of prerequisite groups of its units
C11_OnePerGroup ==
    /\ \A ch1, ch2 \in chosen :
          (ch1[1] = ch2[1] /\ ch1[2] = ch2[2]) => ch1 = ch2
    /\ AfterBuild =>
          /\ \A e \in SeqRange(PathCodes) \ {selectedTarget} :
                \E ch \in chosen :
                    /\ ch[3] = e
                    /\ ch[4]
                    /\ ch[1] # e
                    /\ ch[1] \in SeqRange(PathCodes)
          /\ Len(pathNodes) <= 1 + GroupsInPath

\* a pathway of three units with a group of which one present option is in
\* the result and another present option is not
C11_Witness ==
    /\ AfterBuild
    /\ Len(pathNodes) >= 3
    /\ \E ch \in chosen :
          LET opts == Prereqs(ch[1])[ch[2]].units
          IN  /\ ch[1] \in SeqRange(PathCodes)
              /\ ch[3] \in SeqRange(PathCodes)
              /\ \E k \in 1..Len(opts) :
                    /\ opts[k] # ch[3]
                    /\ unitsData[opts[k]].present
                    /\ opts[k] \notin SeqRange(PathCodes)

\* the scenario: target FIT2004 over the catalog of the tests, nothing in the planner
MockScenario ==
    /\ AfterBuild
    /\ unitsData = mockUnitsData
    /\ selectedTarget = FIT2004
    /\ plannerCodes = {}

ProgrammingInPath == {k \in 1..Len(pathNodes) : PathCodes[k] \in {FIT1008, FIT1054, FIT2085}}

\* C12 as stated: the pathway has 4 to 5 units, exactly one of FIT1008,
\* FIT1054, FIT2085, has MAT1830 and has no ENG1005
C12_ScenarioAsStated ==
    MockScenario =>
        /\ Len(pathNodes) \in 4..5
        /\ Cardinality(ProgrammingInPath) = 1
        /\ MAT1830 \in SeqRange(PathCodes)
        /\ ENG1005 \notin SeqRange(PathCodes)

\* C12 amended: the pathway is FIT2085, MAT1830, FIT2004: 3 units, exactly
\* one of FIT1008, FIT1054, FIT2085, with MAT1830 and without ENG1005
C12_Scenario ==
    MockScenario =>
        /\ Len(pathNodes) = 3
        /\ PathCodes = <<FIT2085, MAT1830, FIT2004>>
        /\ Cardinality(ProgrammingInPath) = 1
        /\ MAT1830 \in SeqRange(PathCodes)
        /\ ENG1005 \notin SeqRange(PathCodes)

\* the scenario resolved, both groups of FIT2004 processed
C12_Witness ==
    /\ MockScenario
    /\ pathNodes # <<>>
    /\ <<FIT2004, 1, FIT2085, TRUE>> \in chosen
    /\ <<FIT2004, 2, MAT1830, TRUE>> \in chosen

(***************************************************************************)
(* Claims about the semesters of the schedulers                            *)
(***************************************************************************)
\* the i-th semester after the start, in the cycle S1 -> S2 -> S1 of the next year
LabelOfRound(i) ==
    LET n == i + (IF startSemester = "S1" THEN 0 ELSE 1)
    IN  [year |-> startYear + (n \div 2), period |-> IF n % 2 = 0 THEN "S1" ELSE "S2"]

\* the labels carried by output semester k of sched
SemesterLabels(sched, k) ==
    IF IsPlanRun
    THEN {[year |-> sched[k].year, period |-> sched[k].period]}
    ELSE {sched[k][i].semester : i \in 1..Len(sched[k])}

SemesterSize(sched, k) ==
    IF IsPlanRun THEN Len(sched[k].units) ELSE Len(sched[k])

LabelBefore(a, b) ==
    \/ a.year < b.year
    \/ a.year = b.year /\ a.period = "S1" /\ b.period = "S2"

\* C13: round i carries the label of the i-th semester after the start; a
\* round appends one non-empty semester with that label or nothing, and
\* moves to the next label either way; the output semesters are non-empty,
\* carry one label each and are strictly increasing in (year, period)
C13_SemesterLabels ==
    [][
        /\ (iterations' = iterations + 1) =>
             /\ [year |-> currentYear, period |-> currentPeriod] = LabelOfRound(iterations)
             /\ [year |-> currentYear', period |-> currentPeriod'] =
                    LabelOfRound(iterations + 1)
             /\ \/ schedule' = schedule
                \/ /\ Len(schedule') = Len(schedule) + 1
                   /\ SubSeq(schedule', 1, Len(schedule)) = schedule
                   /\ SemesterLabels(schedule', Len(schedule')) =
                          {LabelOfRound(iterations)}
        /\ \A k \in 1..Len(schedule') :
             /\ SemesterSize(schedule', k) > 0
             /\ Cardinality(SemesterLabels(schedule', k)) = 1
             /\ \A j \in 1..(k - 1) :
                   \A a \in SemesterLabels(schedule', j) :
                       \A b \in SemesterLabels(schedule', k) : LabelBefore(a, b)
      ]_vars

\* a finished run whose second output semester is not the semester after
\* the first: a round in between emitted nothing
C13_Witness ==
    /\ pc \in {"done", "plan_done"}
    /\ Len(schedule) >= 2
    /\ \E a \in SemesterLabels(schedule, 1) :
          \E b \in SemesterLabels(schedule, 2) :
              /\ a.period = b.period
              /\ b.year = a.year + 1

\* the parsed offered-period list of a unit, [] when none is recorded
OfferedPeriods(code) == getSemestersFromOfferings(unitsData[code].offerings)

\* the list is empty, or names S1 or S2
OfferedInSomeSemester(code) ==
    \/ OfferedPeriods(code) = <<>>
    \/ "S1" \in SeqRange(OfferedPeriods(code))
    \/ "S2" \in SeqRange(OfferedPeriods(code))

\* the codes of semester k of sched
CodesOfSemester(sched, k) ==
    IF IsPlanRun
    THEN {sched[k].units[i].code : i \in 1..Len(sched[k].units)}
    ELSE {sched[k][i].code : i \in 1..Len(sched[k])}

\* C14: a unit placed by a round had all its in-set dependencies placed or
\* seeded before the round, and its offered-period list is empty or holds
\* the period of the round; no placed unit has a non-empty list without S1
\* and S2, and no placed unit depends on a unit with such a list
C14_OfferingEligibility ==
    [][
        /\ (iterations' = iterations + 1 /\ schedule' # schedule) =>
             \A u \in CodesOfSemester(schedule', Len(schedule')) :
                 /\ SeqRange(DependsOnInSet(u)) \subseteq scheduled
                 /\ \/ OfferedPeriods(u) = <<>>
                    \/ currentPeriod \in SeqRange(OfferedPeriods(u))
        /\ \A k \in 1..Len(schedule') :
             \A u \in CodesOfSemester(schedule', k) :
                 /\ OfferedInSomeSemester(u)
                 /\ \A d \in SeqRange(DependsOnInSet(u)) : OfferedInSomeSemester(d)
      ]_vars

\* a finished run that placed a unit and left out a unit offered in summer
\* only together with a unit, itself without recorded offerings, that
\* depends on it
C14_Witness ==
    /\ pc \in {"done", "plan_done"}
    /\ Len(schedule) > 0
    /\ \E i, j \in 1..Len(remaining) :
          /\ ~OfferedInSomeSemester(remaining[i].code)
          /\ remaining[i].code \in SeqRange(DependsOnInSet(remaining[j].code))
          /\ OfferedPeriods(remaining[j].code) = <<>>

(***************************************************************************)
(* Claims about the generated network                                      *)
(***************************************************************************)
\* r is an option of some prerequisite or corequisite group of u
IsOptionOf(r, u) ==
    \/ \E i \in 1..Len(unitsData[u].prerequisites) :
          r \in SeqRange(unitsData[u].prerequisites[i].units)
    \/ \E i \in 1..Len(unitsData[u].corequisites) :
          r \in SeqRange(unitsData[u].corequisites[i].units)

CatalogUnits == {c \in AllCodes : unitsData[c].present}

\* C15: the nodes are the catalog units; for catalog units r and u, u is in
\* unlocks(r) iff r is in requires(u) iff a link r -> u is recorded iff r is
\* an option of a prerequisite or corequisite group of u; no link and no
\* entry names a code outside the catalog
C15_GraphEdges ==
    (pc = "graph_done") =>
        /\ DOMAIN nodesMap = CatalogUnits
        /\ \A r, u \in CatalogUnits :
              /\ (u \in SeqRange(nodesMap[r].unlocks)) <=> (r \in SeqRange(nodesMap[u].requires))
              /\ (r \in SeqRange(nodesMap[u].requires)) <=> IsOptionOf(r, u)
              /\ ([source |-> r, target |-> u] \in SeqRange(links)) <=> IsOptionOf(r, u)
        /\ \A u \in CatalogUnits :
              /\ SeqRange(nodesMap[u].unlocks) \subseteq CatalogUnits
              /\ SeqRange(nodesMap[u].requires) \subseteq CatalogUnits
        /\ \A k \in 1..Len(links) :
              links[k].source \in CatalogUnits /\ links[k].target \in CatalogUnits

\* a generated network with an edge from a corequisite group, while another
\* option of the same unit is absent from the catalog
C15_Witness ==
    /\ pc = "graph_done"
    /\ \E r, u \in CatalogUnits :
          /\ r # u
          /\ \E i \in 1..Len(unitsData[u].corequisites) :
                r \in SeqRange(unitsData[u].corequisites[i].units)
          /\ u \in SeqRange(nodesMap[r].unlocks)
          /\ \E a \in AllCodes \ CatalogUnits : IsOptionOf(a, u)

\* C16: no unit is in its own unlocks or requires, and no link goes from a
\* unit to itself
C16_NoSelfReference ==
    (pc = "graph_done") =>
        /\ \A u \in CatalogUnits :
              /\ u \notin SeqRange(nodesMap[u].unlocks)
              /\ u \notin SeqRange(nodesMap[u].requires)
        /\ \A k \in 1..Len(links) : links[k].source # links[k].target

\* C17: no code occurs twice in the unlocks or in the requires of a node
C17_AdjacencyIsSet ==
    (pc = "graph_done") =>
        \A u \in CatalogUnits :
            /\ \A i, j \in 1..Len(nodesMap[u].unlocks) :
                  nodesMap[u].unlocks[i] = nodesMap[u].unlocks[j] => i = j
            /\ \A i, j \in 1..Len(nodesMap[u].requires) :
                  nodesMap[u].requires[i] = nodesMap[u].requires[j] => i = j

(***************************************************************************)
(* Claims about the planner store                                          *)
(***************************************************************************)
UniqueCodes(us) == \A i, j \in 1..Len(us) : us[i].code = us[j].code => i = j

\* C18: after every step of the store no two entries of units share a code,
\* and addUnit of a code that is in units leaves units as it was
C18_StoreUniqueness ==
    [][
        /\ UniqueCodes(units')
        /\ \A code \in StoreCodes :
              (addUnit(code) /\ hasUnit(code)) => units' = units
    ]_vars

\* a plan of two units was saved, the planner emptied, and the plan loaded again
C18_Witness ==
    /\ pc = "store"
    /\ Len(units) = 2
    /\ currentPlanId = <<1>>
    /\ nextId > 2
    /\ findPlan(1) # <<>>
    /\ findPlan(1)[1].units = units
    /\ findPlan(2) # <<>>
    /\ findPlan(2)[1].units = <<>>

\* C19: clearPrograms empties trackedPrograms and leaves units, savedPlans
\* and currentPlanId; clearUnits empties units and leaves trackedPrograms,
\* savedPlans and currentPlanId; clearAll empties units and trackedPrograms
\* and leaves savedPlans
C19_ClearFrames ==
    [][
        /\ clearPrograms =>
              /\ trackedPrograms' = <<>>
              /\ UNCHANGED <<units, savedPlans, currentPlanId>>
        /\ clearUnits =>
              /\ units' = <<>>
              /\ UNCHANGED <<trackedPrograms, savedPlans, currentPlanId>>
        /\ clearAll =>
              /\ units' = <<>>
              /\ trackedPrograms' = <<>>
              /\ UNCHANGED savedPlans
    ]_vars

\* the current plan was saved with units and a program, and the planner
\* holds neither any more
C19_Witness ==
    /\ pc = "store"
    /\ units = <<>>
    /\ trackedPrograms = <<>>
    /\ currentPlanId # <<>>
    /\ findPlan(currentPlanId[1]) # <<>>
    /\ findPlan(currentPlanId[1])[1].units # <<>>
    /\ findPlan(currentPlanId[1])[1].trackedPrograms # <<>>

(***************************************************************************)
(* Claims about getPrereqDepth of the types module                         *)
(***************************************************************************)
PresentOptions(group) ==
    {group.units[k] : k \in {x \in 1..Len(group.units) : unitsData[group.units[x]].present}}

SetMax(S) == CHOOSE x \in S : \A y \in S : y <= x
SetMin(S) == CHOOSE x \in S : \A y \in S : x <= y

\* the depth as the claim defines it, on an acyclic catalog
RECURSIVE DepthOf(_)
DepthOf(code) ==
    LET groups == unitsData[code].prerequisites
        counting == {i \in 1..Len(groups) : PresentOptions(groups[i]) # {}}
    IN  IF ~unitsData[code].present \/ Len(groups) = 0 THEN 0
        ELSE SetMax({0} \cup
                    {1 + SetMin({DepthOf(o) : o \in PresentOptions(groups[i])}) :
                        i \in counting})

\* C20: on an acyclic catalog getPrereqDepth returns 0 for a unit that is
\* absent or has no prerequisite groups, and otherwise the maximum over the
\* groups of 1 + the minimum depth of the group's options that are present,
\* a group without a present option contributing nothing
C20_PrereqDepth ==
    (pc = "depth_done" /\ AcyclicCatalog) =>
        /\ depthResult = <<DepthOf(selectedTarget)>>
        /\ (~unitsData[selectedTarget].present
               \/ Len(unitsData[selectedTarget].prerequisites) = 0) => depthResult = <<0>>

\* a unit of depth 2 with a group that has no option in the catalog and a
\* group whose options differ in depth
C20_Witness ==
    /\ pc = "depth_done"
    /\ AcyclicCatalog
    /\ depthResult = <<2>>
    /\ \E i \in 1..Len(unitsData[selectedTarget].prerequisites) :
          PresentOptions(unitsData[selectedTarget].prerequisites[i]) = {}

CatalogUnitCount == Cardinality({c \in AllCodes : unitsData[c].present})

\* the units a resolution started at code can meet, code included
UnitsInReach(code) ==
    {c \in {code} \cup ReachableFrom(unitsData, OptionCodes(unitsData, code)) :
        unitsData[c].present}

\* C21: on every catalog, circular ones included, getPrereqDepth returns a
\* number between 0 and the number of units in the catalog (the units the
\* resolution can meet bound it too), and a unit that is in visited already
\* contributes depth 0
C21_CycleSafety ==
    pc = "depth_done" =>
        /\ depthResult # <<>>
        /\ depthResult[1] \in 0..CatalogUnitCount
        /\ depthResult[1] <= Cardinality(UnitsInReach(selectedTarget))
        /\ \A c \in DepthCodes :
              \A seen \in SUBSET UnitsInReach(selectedTarget) :
                  c \in seen => typesGetPrereqDepth(c, seen) = 0

\* a catalog of two units that require each other: the result is 2
C21_Witness ==
    /\ pc = "depth_done"
    /\ ~AcyclicCatalog
    /\ CatalogUnitCount = 2
    /\ selectedTarget \in ReachableFrom(unitsData, OptionCodes(unitsData, selectedTarget))
    /\ depthResult = <<2>>

(***************************************************************************)
(* Claims about requirement-group completion                               *)
(***************************************************************************)
\* completion as the claim states it
RECURSIVE CompleteAsStated(_)
CompleteAsStated(group) ==
    LET children == ChildrenOf(group)
        unitsDone == Cardinality({k \in 1..Len(group.units) :
                                     group.units[k] \in completedUnits})
        childrenDone == Cardinality({k \in 1..Len(children) :
                                        CompleteAsStated(children[k])})
    IN  IF group.type = "AND"
        THEN unitsDone = Len(group.units) /\ childrenDone = Len(children)
        ELSE unitsDone + childrenDone >= NumRequiredOrOne(group)

\* C22: calculateGroupCompletion reports isComplete for an AND group exactly
\* when all its units are completed and all its child groups are complete,
\* and for an OR group exactly when at least numRequired (1 when null) of
\* its units and child groups are completed
C22_GroupCompletion ==
    (pc = "group_done") =>
        (completion[1].isComplete <=> CompleteAsStated(allGroups[1]))

(***************************************************************************)
(* Claims about the loading of the catalog                                 *)
(***************************************************************************)
\* C23: for each cache key at most one request is issued, whatever the
\* interleaving of the fetchData calls, and a call made after a request has
\* succeeded returns the cached value without a request
C23_LoadedOnce ==
    [][
        /\ \A k \in CacheKeys : requestCount'[k] <= 1
        /\ \A h \in Hooks, k \in CacheKeys :
              (FetchDataCall(h, k) /\ dataCache[k] # <<>>) =>
                  /\ requestCount' = requestCount
                  /\ calls'[h].at = "resolved"
                  /\ calls'[h].value = dataCache[k]
    ]_vars

(***************************************************************************)
(* Claims about the place of dependents in the schedules                   *)
(***************************************************************************)
\* the scenario: the chain of five units, cap 4, starting S1 2024
FiveUnitChainRun ==
    /\ unitsData = FiveUnitChainCatalog
    /\ startSemester = "S1"
    /\ startYear = 2024
    /\ \/ pc = "done" /\ selectedTarget = FIT30 /\ units = <<>>
       \/ pc = "plan_done" /\ plannerCodes = SeqRange(FiveUnitChain) /\ unitsPerSemester = 4

\* C24: every in-set dependency of a placed unit is placed in a strictly
\* earlier output semester, never in the unit's own; the chain of five units
\* with unknown offerings, cap 4, starting S1 2024, is placed one unit per
\* semester in the five consecutive semesters S1 2024 .. S1 2026
C24_DependentsLater ==
    /\ \A k \in 1..Len(schedule) :
          \A u \in SeqRange(SemesterCodes(k)) :
              \A d \in SeqRange(DependsOnInSet(u)) :
                  /\ d \notin SeqRange(SemesterCodes(k))
                  /\ \E j \in 1..(k - 1) : d \in SeqRange(SemesterCodes(j))
    /\ FiveUnitChainRun =>
          /\ Len(schedule) = 5
          /\ \A k \in 1..5 :
                /\ SemesterCodes(k) = <<FiveUnitChain[k]>>
                /\ SemesterLabels(schedule, k) = {LabelOfRound(k - 1)}
          /\ SemesterLabels(schedule, 5) = {[year |-> 2026, period |-> "S1"]}

\* the planner page has scheduled the chain, entered last unit first
C24_Witness ==
    /\ FiveUnitChainRun
    /\ pc = "plan_done"
    /\ units[1].code = FIT30
    /\ Len(schedule) = 5
    /\ SemesterCodes(5) = <<FIT30>>

(***************************************************************************)
(* Claims about the pathway as a whole                                     *)
(***************************************************************************)
\* every option code of every unit of the catalog is a unit of the catalog
AllOptionsExist ==
    \A c \in DOMAIN unitsData :
        \A o \in OptionCodes(unitsData, c) : unitsData[o].present

\* no group asks for more options than it lists
NumReqWithinOptions ==
    \A c \in DOMAIN unitsData :
        \A i \in 1..Len(unitsData[c].prerequisites) :
            unitsData[c].prerequisites[i].NumReq <= Len(unitsData[c].prerequisites[i].units)

\* the planner set with the units of the pathway added
SatisfiedWithPath == plannerCodes \cup SeqRange(PathCodes)

\* C25: when all option codes exist and no group asks for more than it
\* lists, checkPrerequisitesMet reports met = true for every unit of the
\* buildPath result once the units of the result are in the satisfied set
C25_PathSufficiency ==
    (AfterBuild /\ AllOptionsExist /\ NumReqWithinOptions) =>
        \A u \in SeqRange(PathCodes) :
            checkPrerequisitesMet(<<[prerequisites |-> Prereqs(u)]>>, SatisfiedWithPath).met

\* the option the resolver chose for group i of unit u (<<>> for null)
ChosenOption(u, i) == (CHOOSE t \in chosen : t[1] = u /\ t[2] = i)[3]

\* C26: for every unit of the resolved pathway and every prerequisite group
\* of it, the dependency selectedPrereqs derives for the group is the option
\* the resolver chose for it, or none when that option is in the planner set
C26_DependenciesMatchChoices ==
    AfterBuild =>
        \A u \in SeqRange(PathCodes) :
            \A i \in 1..Len(Prereqs(u)) :
                /\ \E t \in chosen : t[1] = u /\ t[2] = i
                /\ SelectedOfGroup(Prereqs(u)[i]) =
                      IF ChosenOption(u, i) = <<>> \/ ChosenOption(u, i) \in plannerCodes
                      THEN <<>>
                      ELSE <<ChosenOption(u, i)>>

\* the pathway units code depends on, directly or through other units
RECURSIVE DependenciesFrom(_)
DependenciesFrom(S) ==
    LET S2 == S \cup UNION {SeqRange(selectedPrereqs(u)) : u \in S}
    IN  IF S2 = S THEN S ELSE DependenciesFrom(S2)

DependencyMapAcyclic ==
    \A u \in SeqRange(PathCodes) : u \notin DependenciesFrom(SeqRange(selectedPrereqs(u)))

\* C27: when the dependency map of the pathway is acyclic, every pathway
\* unit has unknown offerings or is offered in S1 or S2, and the pathway has
\* at most 10 units, the scheduler has placed every pathway unit when it
\* returns, within its 20 rounds, and the target is in the last semester
C27_ScheduleComplete ==
    (/\ pc = "done"
     /\ pathNodes # <<>>
     /\ Len(pathNodes) <= 10
     /\ DependencyMapAcyclic
     /\ \A u \in SeqRange(PathCodes) : OfferedInSomeSemester(u)) =>
        /\ iterations <= 20
        /\ remaining = <<>>
        /\ AllScheduledCodes = SeqRange(PathCodes)
        /\ selectedTarget \in SeqRange(SemesterCodes(Len(schedule)))

(***************************************************************************)
(* Claims about the groups of several options on the planner page          *)
(***************************************************************************)
\* the options of a group that are planner units
OptionsInPlanner(group) == SeqRange(group.units) \cap plannerCodes

\* the codes placed in the output semesters before semester k
PlacedBefore(k) == UNION {SeqRange(SemesterCodes(j)) : j \in 1..(k - 1)}

\* C28: when the auto-scheduler has placed planner unit u in a semester, of
\* each prerequisite group of u with at least NumReq options in the planner
\* at least NumReq options are placed in strictly earlier semesters
C28_PlanRespectsGroups ==
    IsPlanRun =>
        \A k \in 1..Len(schedule) :
            \A u \in SeqRange(SemesterCodes(k)) :
                \A i \in 1..Len(unitsData[u].prerequisites) :
                    LET group == unitsData[u].prerequisites[i]
                    IN  Cardinality(OptionsInPlanner(group)) >= group.NumReq =>
                            Cardinality(OptionsInPlanner(group) \cap PlacedBefore(k))
                                >= group.NumReq

(***************************************************************************)
(* Claims about the saved plans                                            *)
(***************************************************************************)
PlanIds(plans) == {plans[k].id : k \in 1..Len(plans)}

\* the plan of the given id in plans
SavedPlan(plans, id) == plans[CHOOSE k \in 1..Len(plans) : plans[k].id = id]

\* C29: currentPlanId is null or the id of a plan in savedPlans
C29_CurrentPlanExists ==
    currentPlanId = <<>> \/ currentPlanId[1] \in PlanIds(savedPlans)

\* the first plan was deleted while the second, saved after it, is current
C29_Witness ==
    /\ pc = "store"
    /\ nextId > 2
    /\ PlanIds(savedPlans) = {2}
    /\ currentPlanId = <<2>>
    /\ units # <<>>

\* C30: savePlan stores units and trackedPrograms under a fresh id; the
\* stored values of a plan stay as they are in every step that is neither
\* deletePlan of its id nor updateCurrentPlan while it is the current plan;
\* loadPlan of a saved id sets units and trackedPrograms to the stored
\* values and currentPlanId to the id; loadPlan of an id that is not saved
\* changes nothing
C30_SnapshotRoundTrip ==
    [][
        /\ \A name \in PlanNames :
              savePlan(name) =>
                  /\ nextId \notin PlanIds(savedPlans)
                  /\ nextId \in PlanIds(savedPlans')
                  /\ SavedPlan(savedPlans', nextId).units = units
                  /\ SavedPlan(savedPlans', nextId).trackedPrograms = trackedPrograms
                  /\ currentPlanId' = <<nextId>>
        /\ \A id \in PlanIds(savedPlans) :
              \/ /\ id \in PlanIds(savedPlans')
                 /\ SavedPlan(savedPlans', id).units = SavedPlan(savedPlans, id).units
                 /\ SavedPlan(savedPlans', id).trackedPrograms =
                        SavedPlan(savedPlans, id).trackedPrograms
              \/ deletePlan(id)
              \/ updateCurrentPlan /\ currentPlanId = <<id>>
        /\ \A id \in 1..MaxPlanIds :
              loadPlan(id) =>
                  IF id \in PlanIds(savedPlans)
                  THEN /\ units' = SavedPlan(savedPlans, id).units
                       /\ trackedPrograms' = SavedPlan(savedPlans, id).trackedPrograms
                       /\ currentPlanId' = <<id>>
                       /\ savedPlans' = savedPlans
                  ELSE UNCHANGED vars
    ]_vars

\* the first plan is current again after a second plan with other units was
\* saved: it was loaded, and the planner holds what the first plan stored
C30_Witness ==
    /\ pc = "store"
    /\ nextId > 2
    /\ currentPlanId = <<1>>
    /\ PlanIds(savedPlans) = {1, 2}
    /\ units = SavedPlan(savedPlans, 1).units
    /\ trackedPrograms = SavedPlan(savedPlans, 1).trackedPrograms
    /\ Len(units) = 1
    /\ trackedPrograms # <<>>
    /\ SavedPlan(savedPlans, 2).units # units
    /\ SavedPlan(savedPlans, 2).trackedPrograms = <<>>

====
